---------------------------- MODULE Spec2Model ----------------------------
(***************************************************************************)
(* A model of src/experiment/rgbd_sod/main.py: the MultiMAE / MultiViT     *)
(* multi-modal vision transformer.  Tensors are modelled by their shapes   *)
(* and, where the order of tokens matters, by the provenance of every      *)
(* token; learned weights are left symbolic.                               *)
(*                                                                         *)
(* Conventions.                                                            *)
(*  - A Python call returns a record [ok, err, val]: Ok(v) when it         *)
(*    returns v, Raise(e) when it raises the exception e.                  *)
(*  - An optional value is a sequence: << >> is None, <<v>> is v.          *)
(*  - An "int or tuple" argument is a sequence too: <<n>> is the int n,    *)
(*    <<a, b>> is the tuple (a, b).                                        *)
(*  - A shape is the sequence of a tensor's dimensions.                    *)
(***************************************************************************)
EXTENDS Integers, Sequences, FiniteSets, TLC

VARIABLES
    posemb,        \* the last call of build_2d_sincos_posemb: << >> or <<[h, w, embed_dim, ret]>>
    posemb_prev,   \* the call before it
    adapter,       \* a PatchedInputAdapter object: << >> or <<object>>
    init_called,   \* history: init(dim_tokens) was called on the adapter
    adapter_ret,   \* the last operation on the adapter and what it returned
    model,         \* a MultiViT object: << >> or <<object>>
    call,          \* the forward pass in progress or just returned: << >> or <<record>>
    loading        \* the checkpoint MULTIMAE loaded and what came of it: << >> or <<record>>

vars == <<posemb, posemb_prev, adapter, init_called, adapter_ret, model, call, loading>>

None == << >>

Some(v) == <<v>>

Ok(v) == [ok |-> TRUE, err |-> "", val |-> v]

Raise(e) == [ok |-> FALSE, err |-> e, val |-> << >>]

Max(a, b) == IF a >= b THEN a ELSE b

(***************************************************************************)
(* F(v), with v evaluated once: a local variable that is assigned once     *)
(* and read several times.                                                 *)
(***************************************************************************)
Bind(v, F(_)) == CHOOSE y \in {F(r) : r \in {v}} : TRUE

(***************************************************************************)
(* The exceptions the model distinguishes.                                 *)
(***************************************************************************)
ERR_POSEMB_DIM == "AssertionError: Embed dimension must be divisible by 4 for 2D sin-cos position embedding"

ERR_NEED_INIT == "AssertionError: Need to call init(dim_tokens) function first"

ERR_DIVISIBLE == "AssertionError: Image sizes must be divisible by patch sizes"

ERR_EINOPS == "EinopsError: Shape mismatch"

(***************************************************************************)
(* Bounds of the model.                                                    *)
(***************************************************************************)
MaxGrid == 3

MaxEmbed == 8

MaxImage == 4

MaxStride == 2

MaxRuns == 3

-----------------------------------------------------------------------------
(***************************************************************************)
(* pair: an int becomes the tuple (t, t), a tuple is kept.                 *)
(***************************************************************************)
pair(t) == IF Len(t) = 2 THEN t ELSE <<t[1], t[1]>>

(***************************************************************************)
(* torch.meshgrid(a, b) with a = arange(n1), b = arange(n2) and the        *)
(* default "ij" indexing: two grids of shape (n1, n2), the first holding   *)
(* a's value at [i, j] = i, the second b's value at [i, j] = j.            *)
(***************************************************************************)
meshgrid(n1, n2) ==
    [first  |-> [i \in 0..(n1 - 1) |-> [j \in 0..(n2 - 1) |-> i]],
     second |-> [i \in 0..(n1 - 1) |-> [j \in 0..(n2 - 1) |-> j]]]

(***************************************************************************)
(* Tensor.flatten() of a grid of shape (n1, n2): row-major.                *)
(***************************************************************************)
flatten(g, n1, n2) == [m \in 0..(n1 * n2 - 1) |-> g[m \div n2][m % n2]]

(***************************************************************************)
(* build_2d_sincos_posemb(h, w, embed_dim, temperature).  The value at     *)
(* [0, d, r, c] is kept symbolic: <<f, n, i>> stands for f(n * omega_i),   *)
(* f the sine or the cosine, n a grid index and                            *)
(* omega_i = 1 / temperature^(i / pos_dim).                                *)
(***************************************************************************)
posemb_precondition_mod2(embed_dim) == embed_dim % 2 = 0

posemb_precondition(embed_dim) == embed_dim % 4 = 0

build_2d_sincos_posemb(h, w, embed_dim) ==
    LET grid    == meshgrid(w, h)            \* grid_w, grid_h = torch.meshgrid(grid_w, grid_h)
        flat_w  == flatten(grid.first, w, h)
        flat_h  == flatten(grid.second, w, h)
        n_flat  == w * h
        pos_dim == embed_dim \div 4
        \* einsum "m,d->md": out[m][i] is the angle flat[m] * omega_i
        out_w   == [m \in 0..(n_flat - 1) |-> [i \in 0..(pos_dim - 1) |-> <<flat_w[m], i>>]]
        out_h   == [m \in 0..(n_flat - 1) |-> [i \in 0..(pos_dim - 1) |-> <<flat_h[m], i>>]]
        d_cat   == 4 * pos_dim
        \* cat([sin(out_w), cos(out_w), sin(out_h), cos(out_h)], dim=1)
        cat     == [m \in 0..(n_flat - 1) |-> [k \in 0..(d_cat - 1) |->
                      IF k < pos_dim
                      THEN <<"sin", out_w[m][k][1], out_w[m][k][2]>>
                      ELSE IF k < 2 * pos_dim
                      THEN <<"cos", out_w[m][k - pos_dim][1], out_w[m][k - pos_dim][2]>>
                      ELSE IF k < 3 * pos_dim
                      THEN <<"sin", out_h[m][k - 2 * pos_dim][1], out_h[m][k - 2 * pos_dim][2]>>
                      ELSE <<"cos", out_h[m][k - 3 * pos_dim][1], out_h[m][k - 3 * pos_dim][2]>>]]
    IN  IF ~posemb_precondition(embed_dim) THEN Raise(ERR_POSEMB_DIM)
        \* rearrange "b (h w) d -> b d h w" with h, w and d = embed_dim given
        ELSE IF n_flat # h * w \/ d_cat # embed_dim THEN Raise(ERR_EINOPS)
        ELSE Ok([shape |-> <<1, d_cat, h, w>>,
                 at |-> [d \in 0..(d_cat - 1) |->
                            [r \in 0..(h - 1) |-> [c \in 0..(w - 1) |-> cat[r * w + c][d]]]]])

(***************************************************************************)
(* A call of build_2d_sincos_posemb; the call before it is kept, so that   *)
(* two calls can be compared.                                              *)
(***************************************************************************)
CallPosemb(h, w, embed_dim) ==
    /\ posemb' = Some([h |-> h, w |-> w, embed_dim |-> embed_dim,
                       ret |-> build_2d_sincos_posemb(h, w, embed_dim)])
    /\ posemb_prev' = posemb
    /\ UNCHANGED <<adapter, init_called, adapter_ret, model, call, loading>>

-----------------------------------------------------------------------------
(***************************************************************************)
(* PatchedInputAdapter.                                                    *)
(***************************************************************************)

ERR_TUPLE_FLOORDIV == "TypeError: unsupported operand type(s) for //: 'int' and 'tuple'"

ERR_UNPACK == "ValueError: wrong number of values to unpack"

ERR_NO_PROJ == "AttributeError: 'PatchedInputAdapter' object has no attribute 'proj'"

ERR_CONV == "RuntimeError: conv2d: input does not fit the kernel or the channels"

ERR_INTERPOLATE == "RuntimeError: interpolate: input and output sizes should be greater than 0"

ERR_BROADCAST == "RuntimeError: the sizes of the tensors must match"

(***************************************************************************)
(* The output length of nn.Conv2d along one axis, without padding or       *)
(* dilation: floor((n - kernel) / stride) + 1.                             *)
(***************************************************************************)
Conv2dOut_stride_one(n, kernel, stride) == (n - kernel) + 1

Conv2dOut(n, kernel, stride) == (n - kernel) \div stride + 1

(***************************************************************************)
(* F.interpolate(input, size): the batch and channel dimensions are kept   *)
(* and the spatial ones become `size`; empty inputs or outputs are         *)
(* refused.                                                                *)
(***************************************************************************)
interpolate(shape, size) ==
    IF shape[3] <= 0 \/ shape[4] <= 0 \/ size[1] <= 0 \/ size[2] <= 0
    THEN Raise(ERR_INTERPOLATE)
    ELSE Ok(<<shape[1], shape[2], size[1], size[2]>>)

(***************************************************************************)
(* PatchedInputAdapter.init(dim_tokens).  It assigns self.dim_tokens       *)
(* first, so that an init that raises while building the positional        *)
(* embedding leaves an object with dim_tokens set and no pos_emb, no proj. *)
(* Returns the object as the call leaves it and the exception, if any.     *)
(***************************************************************************)
set_dim_tokens_forgotten(self, dim_tokens) == self

set_dim_tokens(self, dim_tokens) == [self EXCEPT !.dim_tokens = Some(dim_tokens)]

PatchedInputAdapter_init(self, dim_tokens) ==
    LET s1       == set_dim_tokens(self, dim_tokens)
        h_posemb == self.image_size[1] \div (self.stride_level * self.P_H)
        w_posemb == self.image_size[2] \div (self.stride_level * self.P_W)
        pe       == IF self.sincos_pos_emb
                    THEN build_2d_sincos_posemb(h_posemb, w_posemb, dim_tokens)
                    ELSE Ok([shape |-> <<1, dim_tokens, h_posemb, w_posemb>>])
    IN  IF ~pe.ok
        THEN [self |-> s1, err |-> pe.err]
        ELSE [self |-> [s1 EXCEPT
                          !.pos_emb = Some(pe.val.shape),
                          !.proj = Some([in_channels  |-> self.num_channels,
                                         out_channels |-> dim_tokens,
                                         kernel_size  |-> <<self.P_H, self.P_W>>,
                                         stride       |-> <<self.P_H, self.P_W>>])],
              err |-> ""]

(***************************************************************************)
(* PatchedInputAdapter.__init__.  patch_size_full and image_size are ints  *)
(* or tuples, dim_tokens is optional.  num_patches divides by the          *)
(* patch_size_full argument as it was given.                               *)
(***************************************************************************)
PatchedInputAdapter__init__(num_channels, stride_level, patch_size_full, dim_tokens, sincos_pos_emb, image_size) ==
    LET psf  == pair(patch_size_full)
        img  == pair(image_size)
        self == [num_channels   |-> num_channels,
                 stride_level   |-> stride_level,
                 patch_size_full |-> psf,
                 dim_tokens     |-> dim_tokens,
                 sincos_pos_emb |-> sincos_pos_emb,
                 image_size     |-> img,
                 num_patches    |-> IF Len(patch_size_full) = 2 THEN 0
                                    ELSE (img[1] \div patch_size_full[1]) * (img[2] \div patch_size_full[1]),
                 P_H            |-> Max(1, psf[1] \div stride_level),
                 P_W            |-> Max(1, psf[2] \div stride_level),
                 pos_emb        |-> None,
                 proj           |-> None]
        r    == PatchedInputAdapter_init(self, dim_tokens[1])
    IN  IF Len(patch_size_full) = 2 THEN Raise(ERR_TUPLE_FLOORDIV)
        ELSE IF dim_tokens = None THEN Ok(self)
        ELSE IF r.err # "" THEN Raise(r.err)
        ELSE Ok(r.self)

(***************************************************************************)
(* PatchedInputAdapter.forward(x), x given by its shape.  Returns the      *)
(* shape (B, N, dim_tokens) of the token sequence and the token grid.      *)
(***************************************************************************)
divisible_unchecked(H, W, P_H, P_W) == TRUE

divisible(H, W, P_H, P_W) == (H % P_H = 0) /\ (W % P_W = 0)

PatchedInputAdapter_forward(self, shape) ==
    IF Len(shape) # 4 THEN Raise(ERR_UNPACK)           \* B, C, H, W = x.shape
    ELSE
    LET B   == shape[1]
        C   == shape[2]
        H   == shape[3]
        W   == shape[4]
        N_H == H \div self.P_H
        N_W == W \div self.P_W
    IN  IF self.dim_tokens = None THEN Raise(ERR_NEED_INIT)
        ELSE IF ~divisible(H, W, self.P_H, self.P_W) THEN Raise(ERR_DIVISIBLE)
        ELSE IF self.proj = None THEN Raise(ERR_NO_PROJ)
        ELSE
        LET proj    == self.proj[1]
            \* self.proj(x): (B, D, nh, nw), rearranged to (B, nh * nw, D)
            nh      == Conv2dOut(H, proj.kernel_size[1], proj.stride[1])
            nw      == Conv2dOut(W, proj.kernel_size[2], proj.stride[2])
            x_patch == <<B, nh * nw, proj.out_channels>>
            \* the positional embedding resized to (N_H, N_W), rearranged the same way
            pe      == interpolate(self.pos_emb[1], <<N_H, N_W>>)
            x_pos   == <<pe.val[1], pe.val[3] * pe.val[4], pe.val[2]>>
        IN  IF C # proj.in_channels \/ H < proj.kernel_size[1] \/ W < proj.kernel_size[2]
            THEN Raise(ERR_CONV)
            ELSE IF ~pe.ok THEN Raise(pe.err)
            \* x_patch + x_pos_emb broadcasts the batch; tokens and channels must agree
            ELSE IF x_patch[2] # x_pos[2] \/ x_patch[3] # x_pos[3] THEN Raise(ERR_BROADCAST)
            ELSE Ok([shape |-> x_patch, grid |-> <<nh, nw>>])

(***************************************************************************)
(* The operations on one adapter: construction, init, forward.             *)
(***************************************************************************)
PatchSizeArgs == {<<p>> : p \in 1..MaxImage} \cup {<<2, 2>>, <<2, 4>>}

ImageSizeArgs == {<<MaxImage>>, <<MaxImage, 2 * MaxImage>>}

DimTokensArgs == {None} \cup {Some(d) : d \in {MaxEmbed - 4, MaxEmbed - 2, MaxEmbed}}

NewAdapter(num_channels, stride_level, patch_size_full, dim_tokens, sincos_pos_emb, image_size) ==
    LET r == PatchedInputAdapter__init__(num_channels, stride_level, patch_size_full,
                                         dim_tokens, sincos_pos_emb, image_size)
    IN  /\ adapter = None
        /\ adapter_ret = None
        /\ adapter' = IF r.ok THEN Some(r.val) ELSE None
        /\ init_called' = (r.ok /\ dim_tokens # None)
        /\ adapter_ret' = Some([op |-> "__init__", arg |-> patch_size_full, ok |-> r.ok, err |-> r.err,
                                tokens |-> 0, grid |-> <<0, 0>>])
        /\ UNCHANGED <<posemb, posemb_prev, model, call, loading>>

InitAdapter(dim_tokens) ==
    LET r == PatchedInputAdapter_init(adapter[1], dim_tokens)
    IN  /\ adapter # None
        /\ adapter' = Some(r.self)
        /\ init_called' = TRUE
        /\ adapter_ret' = Some([op |-> "init", arg |-> <<dim_tokens>>, ok |-> (r.err = ""), err |-> r.err,
                                tokens |-> 0, grid |-> <<0, 0>>])
        /\ UNCHANGED <<posemb, posemb_prev, model, call, loading>>

ForwardAdapter(shape) ==
    LET r == PatchedInputAdapter_forward(adapter[1], shape)
    IN  /\ adapter # None
        /\ adapter_ret' = Some([op |-> "forward", arg |-> shape, ok |-> r.ok, err |-> r.err,
                                tokens |-> IF r.ok THEN r.val.shape[2] ELSE 0,
                                grid |-> IF r.ok THEN r.val.grid ELSE <<0, 0>>])
        /\ UNCHANGED <<posemb, posemb_prev, adapter, init_called, model, call, loading>>

-----------------------------------------------------------------------------
(***************************************************************************)
(* Dictionaries.  A Python dict is the sequence of its items in insertion  *)
(* order, each a record [key, value]; keys are unique.                     *)
(***************************************************************************)
Keys(d) == {d[i].key : i \in DOMAIN d}

Get(d, k) == d[CHOOSE i \in DOMAIN d : d[i].key = k].value

KeySeq(d) == [i \in DOMAIN d |-> d[i].key]

Item(k, v) == [key |-> k, value |-> v]

RECURSIVE SumSeq(_)
SumSeq(ns) == IF ns = << >> THEN 0 ELSE ns[1] + SumSeq(Tail(ns))

RECURSIVE Concat(_)
Concat(seqs) == IF seqs = << >> THEN << >> ELSE seqs[1] \o Concat(Tail(seqs))

Reverse(seq) == [i \in DOMAIN seq |-> seq[Len(seq) + 1 - i]]

(***************************************************************************)
(* A token sequence is a tensor of shape (B, N, D) together with the       *)
(* provenance of its N tokens, in order: token [task, idx, layer] is the   *)
(* idx-th token (from 1) the input adapter of modality `task` produced, or *)
(* the idx-th global token, after `layer` encoder blocks.                  *)
(***************************************************************************)
GLOBAL == "global_tokens"

Token(task, idx) == [task |-> task, idx |-> idx, layer |-> 0]

Tokens(B, D, toks) == [shape |-> <<B, Len(toks), D>>, toks |-> toks]

EmptyTokens == Tokens(0, 0, << >>)

ERR_KEY == "KeyError"

ERR_INDEX == "IndexError: list index out of range"

ERR_CAT_EMPTY == "RuntimeError: torch.cat(): expected a non-empty list of Tensors"

ERR_CAT == "RuntimeError: Sizes of tensors must match except in the concatenated dimension"

ERR_LIST_INDEX == "TypeError: list indices must be integers or slices, not tuple"

ERR_RESHAPE == "RuntimeError: shape is invalid for input size"

ERR_MATMUL == "RuntimeError: mat1 and mat2 shapes cannot be multiplied"

ERR_CONV_GROUPS == "ValueError: conv2d channels and groups must be positive"

-----------------------------------------------------------------------------
(***************************************************************************)
(* ConvNeXtAdapter.                                                        *)
(***************************************************************************)

(***************************************************************************)
(* ConvNeXtAdapter.__init__.  The ConvNeXt blocks and the final 1x1        *)
(* convolution keep the spatial size; they need class_dim >= 1 channels.   *)
(***************************************************************************)
ConvNeXtAdapter__init__(num_classes, embed_dim, preds_per_patch, main_tasks, patch_size) ==
    LET class_dim == embed_dim \div preds_per_patch
    IN  IF class_dim <= 0 THEN Raise(ERR_CONV_GROUPS)
        ELSE Ok([main_tasks      |-> main_tasks,
                 patch_size      |-> patch_size,
                 embed_dim       |-> embed_dim,
                 preds_per_patch |-> preds_per_patch,
                 class_dim       |-> class_dim,
                 num_classes     |-> num_classes,
                 in_channels     |-> None,
                 proj_dec        |-> None])

(***************************************************************************)
(* ConvNeXtAdapter.init(dim_tokens_enc).                                   *)
(***************************************************************************)
ConvNeXtAdapter_init(self, dim_tokens_enc) ==
    LET in_channels == dim_tokens_enc * Len(self.main_tasks)
    IN  [self EXCEPT !.in_channels = Some(in_channels),
                     !.proj_dec = Some([in_features |-> in_channels, out_features |-> self.embed_dim])]

(***************************************************************************)
(* The Python slice seq[start:end] of a sequence (indices from 0, end      *)
(* excluded, clamped to the sequence).                                     *)
(***************************************************************************)
Slice(seq, start, end) == SubSeq(seq, start + 1, IF end <= Len(seq) THEN end ELSE Len(seq))

(***************************************************************************)
(* ConvNeXtAdapter.adapt_tokens(encoder_tokens, input_info).  task_range   *)
(* is the range [start_idx, end_idx) it reads for a main task.             *)
(* encoder_tokens is [is_list, tokens, layers]: one token sequence, or     *)
(* the Python list of the sequences of every layer.  The result is a       *)
(* tensor (B, n, D * k) for k main tasks: position i holds, side by side   *)
(* along the feature axis, the i-th token of every main task's slice.      *)
(***************************************************************************)
task_range_from_zero(input_info, task) == <<0, input_info.tasks[task].num_tokens>>

task_range(input_info, task) == <<input_info.tasks[task].start_idx, input_info.tasks[task].end_idx>>

adapt_tokens(self, encoder_tokens, input_info) ==
    LET tasks  == self.main_tasks
        known  == DOMAIN input_info.tasks
        slices == [j \in DOMAIN tasks |->
                      Slice(encoder_tokens.tokens.toks,
                            task_range(input_info, tasks[j])[1],
                            task_range(input_info, tasks[j])[2])]
    IN  IF tasks = << >> THEN Raise(ERR_CAT_EMPTY)
        ELSE IF tasks[1] \notin known THEN Raise(ERR_KEY)
        \* encoder_tokens[:, start_idx:end_idx] on a list
        ELSE IF encoder_tokens.is_list THEN Raise(ERR_LIST_INDEX)
        ELSE IF \E j \in DOMAIN tasks : tasks[j] \notin known THEN Raise(ERR_KEY)
        \* torch.cat(x, dim=-1): the slices must hold the same number of tokens
        ELSE IF \E j \in DOMAIN tasks : Len(slices[j]) # Len(slices[1]) THEN Raise(ERR_CAT)
        ELSE Ok([shape |-> <<encoder_tokens.tokens.shape[1], Len(slices[1]),
                             encoder_tokens.tokens.shape[3] * Len(tasks)>>,
                 toks  |-> [i \in 1..Len(slices[1]) |-> [j \in DOMAIN tasks |-> slices[j][i]]]])

(***************************************************************************)
(* int(preds_per_patch ** 0.5): the integer part of the square root.       *)
(***************************************************************************)
int_sqrt(n) == CHOOSE r \in 0..n : (r * r <= n) /\ ((r + 1) * (r + 1) > n)

(***************************************************************************)
(* What the second rearrange of ConvNeXtAdapter.forward,                   *)
(* "b (nh nw ph pw) c -> b c (nh ph) (nw pw)", asks of its input of        *)
(* length `len`: len = nh * nw * ph * pw.                                  *)
(***************************************************************************)
rearrange_grid_truncating(len, nh, nw, ph, pw) == len >= nh * nw * ph * pw

rearrange_grid(len, nh, nw, ph, pw) == len = nh * nw * ph * pw

(***************************************************************************)
(* The size F.interpolate(x, size=(H, W)) is asked for in                  *)
(* ConvNeXtAdapter.forward.                                                *)
(***************************************************************************)
output_size_of_feature_map(H, W, feat_h, feat_w) == <<feat_h, feat_w>>

output_size(H, W, feat_h, feat_w) == <<H, W>>

(***************************************************************************)
(* ConvNeXtAdapter.forward(encoder_tokens, input_info).  Returns the shape *)
(* of the prediction, the size of the feature map the ConvNeXt blocks ran  *)
(* on, and the tokens that were selected.                                  *)
(***************************************************************************)
ConvNeXtAdapter_forward(self, encoder_tokens, input_info) ==
    LET H   == input_info.image_size[1]
        W   == input_info.image_size[2]
        N_H == H \div self.patch_size
        N_W == W \div self.patch_size
        x   == adapt_tokens(self, encoder_tokens, input_info)
        B   == x.val.shape[1]
        n   == x.val.shape[2]
        ph  == int_sqrt(self.preds_per_patch)
        pw  == int_sqrt(self.preds_per_patch)
        feat_h == N_H * ph
        feat_w == N_W * pw
        out == interpolate(<<B, self.num_classes, feat_h, feat_w>>, output_size(H, W, feat_h, feat_w))
    IN  IF ~x.ok THEN Raise(x.err)
        \* self.proj_dec(x)
        ELSE IF x.val.shape[3] # self.proj_dec[1].in_features THEN Raise(ERR_MATMUL)
        \* rearrange "b n (p c) -> b (n p) c" with n = N_H * N_W, p = preds_per_patch, c = class_dim
        ELSE IF n # N_H * N_W \/ self.proj_dec[1].out_features # self.preds_per_patch * self.class_dim
        THEN Raise(ERR_EINOPS)
        \* rearrange "b (nh nw ph pw) c -> b c (nh ph) (nw pw)"
        ELSE IF ~rearrange_grid(n * self.preds_per_patch, N_H, N_W, ph, pw) THEN Raise(ERR_EINOPS)
        \* self.blocks, self.final_layer, then F.interpolate to (H, W)
        ELSE IF ~out.ok THEN Raise(out.err)
        ELSE Ok([shape |-> out.val, feature_map |-> <<feat_h, feat_w>>, selected |-> x.val.toks])

-----------------------------------------------------------------------------
(***************************************************************************)
(* Attention, Block and the encoder.  A block keeps the shape (B, N, D)    *)
(* and the order of the tokens; what it computes is left symbolic, a       *)
(* token only counts the blocks it went through.                           *)
(***************************************************************************)

ERR_ZERO_DIV == "ZeroDivisionError: integer division or modulo by zero"

ERR_ZERO_POW == "ZeroDivisionError: 0.0 cannot be raised to a negative power"

(***************************************************************************)
(* Rational numbers, for the drop-path rates: <<n, d>> is n / d, d > 0.    *)
(***************************************************************************)
Rat(n, d) == <<n, d>>

RatEq(a, b) == a[1] * b[2] = b[1] * a[2]

RatLess(a, b) == a[1] * b[2] < b[1] * a[2]

RatSub(a, b) == <<a[1] * b[2] - b[1] * a[2], a[2] * b[2]>>

RatZero == Rat(0, 1)

RatOne == Rat(1, 1)

(***************************************************************************)
(* torch.linspace(start, end, steps) as a list: `steps` values from start  *)
(* to end at equal distances; the single value of steps = 1 is start.      *)
(***************************************************************************)
linspace_all_end(start, end, steps) == [i \in 1..steps |-> end]

linspace(start, end, steps) ==
    [i \in 1..steps |->
        IF steps = 1 THEN start
        ELSE Rat(start[1] * end[2] * (steps - 1) + (i - 1) * (end[1] * start[2] - start[1] * end[2]),
                 start[2] * end[2] * (steps - 1))]

(***************************************************************************)
(* Attention.__init__(dim, num_heads): head_dim = dim // num_heads and     *)
(* scale = head_dim ** -0.5.  Nothing compares dim with num_heads; the     *)
(* constructor raises only where the arithmetic does, for num_heads = 0    *)
(* and for head_dim = 0.                                                   *)
(***************************************************************************)
Attention__init__(dim, num_heads) ==
    IF num_heads = 0 THEN Raise(ERR_ZERO_DIV)
    ELSE IF dim \div num_heads = 0 THEN Raise(ERR_ZERO_POW)
    ELSE Ok([dim |-> dim, num_heads |-> num_heads])

(***************************************************************************)
(* Block.__init__(dim, num_heads, drop_path): the attention, and a         *)
(* DropPath(drop_path) when drop_path > 0, else nn.Identity (None here).   *)
(***************************************************************************)
Block__init__(dim, num_heads, drop_path) ==
    LET attn == Attention__init__(dim, num_heads)
    IN  IF ~attn.ok THEN Raise(attn.err)
        ELSE Ok([dim |-> attn.val.dim, num_heads |-> attn.val.num_heads,
                 drop_path |-> IF RatLess(RatZero, drop_path) THEN Some(drop_path) ELSE None])

(***************************************************************************)
(* drop_path(x, drop_prob, training).  x is a residual branch of a block,  *)
(* [term, unchanged, keep_prob, random_tensor]: as the branch computed it  *)
(* (unchanged), or divided by keep_prob and multiplied, sample by sample,  *)
(* by random_tensor (1: kept, 0: dropped).  random_tensor is the draw      *)
(* floor(keep_prob + rand) the call would make.                            *)
(***************************************************************************)
Branch(term) == [term |-> term, unchanged |-> TRUE, keep_prob |-> RatOne, random_tensor |-> << >>]

drop_path(x, drop_prob, training, random_tensor) ==
    IF RatEq(drop_prob, RatZero) \/ ~training THEN x
    ELSE [term |-> x.term, unchanged |-> FALSE, keep_prob |-> RatSub(RatOne, drop_prob),
          random_tensor |-> random_tensor]

\* DropPath.forward, and the nn.Identity a block has in its place when its rate is 0.
DropPath_forward(self, x, training, random_tensor) ==
    IF self = None THEN x ELSE drop_path(x, self[1], training, random_tensor)

(***************************************************************************)
(* The two residual branches Block.forward adds to x, after drop_path:     *)
(* x + drop_path(attn(norm1(x))), then x + drop_path(mlp(norm2(x))).       *)
(* rand holds the two draws.                                               *)
(***************************************************************************)
Block_branches(self, training, rand) ==
    <<DropPath_forward(self.drop_path, Branch("attn"), training, rand[1]),
      DropPath_forward(self.drop_path, Branch("mlp"), training, rand[2])>>

(***************************************************************************)
(* Attention.forward: the reshape to (B, N, 3, num_heads, C // num_heads)  *)
(* needs num_heads to divide C.                                            *)
(***************************************************************************)
Attention_forward(self, x) ==
    IF (x.shape[3] \div self.num_heads) * self.num_heads # x.shape[3]
    THEN Raise(ERR_RESHAPE)
    ELSE Ok(x)

(***************************************************************************)
(* Block.forward on a token sequence: drop_path changes neither the shape  *)
(* nor the order of the tokens, which is all a token sequence records.     *)
(***************************************************************************)
Block_forward_unapplied(self, x) == Ok(x)

Block_forward(self, x) ==
    LET attn == Attention_forward(self, x)
    IN  IF ~attn.ok THEN Raise(attn.err)
        ELSE Ok([shape |-> x.shape,
                 toks  |-> [i \in 1..Len(x.toks) |-> [x.toks[i] EXCEPT !.layer = @ + 1]]])

(***************************************************************************)
(* The outputs of the blocks applied one after the other to x: the list    *)
(* the loop of MultiViT.forward builds; its last element is what           *)
(* self.encoder(x) returns.  Raises what the first failing block raises.   *)
(***************************************************************************)
RECURSIVE encoder_layers(_, _, _)
encoder_layers(blocks, x, acc) ==
    IF blocks = << >> THEN Ok(acc)
    ELSE Bind(Block_forward(blocks[1], x),
              LAMBDA r : IF ~r.ok THEN Raise(r.err)
                         ELSE encoder_layers(Tail(blocks), r.val, Append(acc, r.val)))

-----------------------------------------------------------------------------
(***************************************************************************)
(* MultiMAE and MultiViT.                                                  *)
(***************************************************************************)

(***************************************************************************)
(* adapter.init(dim_tokens) for every input adapter, in the order of the   *)
(* dict; the first exception ends the construction.                        *)
(***************************************************************************)
RECURSIVE init_input_adapters(_, _, _)
init_input_adapters(items, dim_tokens, acc) ==
    IF items = << >> THEN Ok(acc)
    ELSE LET r == PatchedInputAdapter_init(items[1].value, dim_tokens)
         IN  IF r.err # "" THEN Raise(r.err)
             ELSE init_input_adapters(Tail(items), dim_tokens, Append(acc, Item(items[1].key, r.self)))

(***************************************************************************)
(* MultiMAE.__init__ (MultiViT inherits it).  input_adapters is a dict,    *)
(* output_adapters None or a dict.  The encoder is `depth` blocks, block i *)
(* with the i-th drop-path rate of linspace(0, drop_path_rate, depth).     *)
(***************************************************************************)
MultiMAE__init__(input_adapters, output_adapters, num_global_tokens, dim_tokens, depth, num_heads, drop_path_rate) ==
    LET ins    == init_input_adapters(input_adapters, dim_tokens, << >>)
        \* stochastic depth decay rule
        dpr    == linspace(RatZero, drop_path_rate, depth)
        blocks == [i \in 1..depth |-> Block__init__(dim_tokens, num_heads, dpr[i])]
    IN  IF ~ins.ok THEN Raise(ins.err)
        ELSE IF \E i \in 1..depth : ~blocks[i].ok
        THEN Raise(blocks[CHOOSE i \in 1..depth : ~blocks[i].ok /\ \A j \in 1..(i - 1) : blocks[j].ok].err)
        ELSE Ok([input_adapters    |-> ins.val,
                 output_adapters   |-> IF output_adapters = None THEN None
                                       ELSE Some([i \in DOMAIN output_adapters[1] |->
                                                    Item(output_adapters[1][i].key,
                                                         ConvNeXtAdapter_init(output_adapters[1][i].value, dim_tokens))]),
                 num_global_tokens |-> num_global_tokens,
                 global_tokens     |-> <<1, num_global_tokens, dim_tokens>>,
                 encoder           |-> [i \in 1..depth |-> blocks[i].val],
                 \* nn.Module starts in training mode
                 training          |-> TRUE,
                 \* history: the drop_path_rate the model was constructed with
                 drop_path_rate    |-> drop_path_rate])

(***************************************************************************)
(* The index after a task's tokens (i += num_tokens).                      *)
(***************************************************************************)
next_index_restart(i, num_tokens) == num_tokens

next_index(i, num_tokens) == i + num_tokens

(***************************************************************************)
(* MultiMAE.generate_input_info(input_task_tokens, image_size).            *)
(* input_task_tokens is the dict of the encoded token sequences; the loop  *)
(* walks it in order, i the running index.                                 *)
(***************************************************************************)
RECURSIVE input_info_tasks(_, _, _)
input_info_tasks(items, i, tasks) ==
    IF items = << >> THEN [tasks |-> tasks, i |-> i]
    ELSE LET domain     == items[1].key
             num_tokens == items[1].value.shape[2]
             d          == [num_tokens    |-> num_tokens,
                            has_2d_posemb |-> TRUE,
                            start_idx     |-> i,
                            end_idx       |-> i + num_tokens]
         IN  input_info_tasks(Tail(items), next_index(i, num_tokens),
                              [k \in (DOMAIN tasks) \cup {domain} |-> IF k = domain THEN d ELSE tasks[k]])

generate_input_info(self, input_task_tokens, image_size) ==
    LET r == input_info_tasks(input_task_tokens, 0, << >>)
    IN  [tasks             |-> r.tasks,
         image_size        |-> image_size,
         num_task_tokens   |-> r.i,
         num_global_tokens |-> self.num_global_tokens]

(***************************************************************************)
(* The image size process_input reads from x (a dict): from "rgb" if it    *)
(* is there, else from "semseg" (a (B, H, W) tensor, scaled by the stride  *)
(* level of its adapter), else from the first tensor.  Returns <<B, H, W>>.*)
(***************************************************************************)
image_size_of(self, x) ==
    IF "rgb" \in Keys(x)
    THEN LET shape == Get(x, "rgb")
         IN  IF Len(shape) # 4 THEN Raise(ERR_UNPACK)
             ELSE Ok(<<shape[1], shape[3], shape[4]>>)
    ELSE IF "semseg" \in Keys(x)
    THEN LET shape == Get(x, "semseg")
         IN  IF Len(shape) # 3 THEN Raise(ERR_UNPACK)
             ELSE IF "semseg" \notin Keys(self.input_adapters) THEN Raise(ERR_KEY)
             ELSE Ok(<<shape[1],
                       shape[2] * Get(self.input_adapters, "semseg").stride_level,
                       shape[3] * Get(self.input_adapters, "semseg").stride_level>>)
    ELSE IF x = << >> THEN Raise(ERR_INDEX)
    ELSE LET shape == x[1].value
         IN  IF Len(shape) # 4 THEN Raise(ERR_UNPACK)
             ELSE Ok(<<shape[1], shape[3], shape[4]>>)

(***************************************************************************)
(* The dict comprehension of process_input: every tensor of x whose        *)
(* domain has an input adapter is encoded, in the order of x.              *)
(***************************************************************************)
RECURSIVE encode_inputs(_, _, _)
encode_inputs(self, x, acc) ==
    IF x = << >> THEN Ok(acc)
    ELSE IF x[1].key \notin Keys(self.input_adapters) THEN encode_inputs(self, Tail(x), acc)
    ELSE Bind(PatchedInputAdapter_forward(Get(self.input_adapters, x[1].key), x[1].value),
              LAMBDA r : IF ~r.ok THEN Raise(r.err)
                         ELSE encode_inputs(self, Tail(x),
                                Append(acc, Item(x[1].key,
                                                 Tokens(r.val.shape[1], r.val.shape[3],
                                                        [i \in 1..r.val.shape[2] |-> Token(x[1].key, i)])))))

(***************************************************************************)
(* The order in which process_input concatenates the encoded sequences:    *)
(* that of input_task_tokens.values().                                     *)
(***************************************************************************)
cat_order_reversed(input_task_tokens) == Reverse([i \in DOMAIN input_task_tokens |-> input_task_tokens[i].value])

cat_order(input_task_tokens) == [i \in DOMAIN input_task_tokens |-> input_task_tokens[i].value]

(***************************************************************************)
(* torch.cat(tensors, dim=1) of token sequences: batch and token           *)
(* dimension must agree.                                                   *)
(***************************************************************************)
cat_tokens(tensors) ==
    IF tensors = << >> THEN Raise(ERR_CAT_EMPTY)
    ELSE IF \E i \in DOMAIN tensors : tensors[i].shape[1] # tensors[1].shape[1]
                                       \/ tensors[i].shape[3] # tensors[1].shape[3]
    THEN Raise(ERR_CAT)
    ELSE Ok(Tokens(tensors[1].shape[1], tensors[1].shape[3], Concat([i \in DOMAIN tensors |-> tensors[i].toks])))

(***************************************************************************)
(* MultiViT.process_input(x).  x is a tensor (taken as "rgb") or a dict.   *)
(* Returns the fused token sequence and the input info; encoded keeps the  *)
(* encoded sequences of the modalities, for the properties.                *)
(***************************************************************************)
fuse(self, size, input_task_tokens) ==
    LET B      == size[1]
        H      == size[2]
        W      == size[3]
        input_info   == generate_input_info(self, input_task_tokens, <<H, W>>)
        input_tokens == cat_tokens(cat_order(input_task_tokens))
        \* repeat(self.global_tokens, "() n d -> b n d", b=B)
        global_tokens == Tokens(B, self.global_tokens[3],
                                [g \in 1..self.global_tokens[2] |-> Token(GLOBAL, g)])
        fused  == cat_tokens(<<input_tokens.val, global_tokens>>)
    IN  IF ~input_tokens.ok THEN Raise(input_tokens.err)
        ELSE IF ~fused.ok THEN Raise(fused.err)
        ELSE Ok([input_tokens |-> fused.val, input_info |-> input_info,
                 encoded |-> input_task_tokens])

process_input(self, x) ==
    LET xd   == IF x.is_tensor THEN <<Item("rgb", x.tensor)>> ELSE x.dict
        size == image_size_of(self, xd)
    IN  IF ~size.ok THEN Raise(size.err)
        ELSE Bind(encode_inputs(self, xd, << >>),
                  LAMBDA input_task_tokens :
                      IF ~input_task_tokens.ok THEN Raise(input_task_tokens.err)
                      ELSE fuse(self, size.val, input_task_tokens.val))

(***************************************************************************)
(* The dict comprehension of MultiViT.forward over the output adapters.    *)
(***************************************************************************)
RECURSIVE decode_outputs(_, _, _, _)
decode_outputs(adapters, encoder_tokens, input_info, acc) ==
    IF adapters = << >> THEN Ok(acc)
    ELSE Bind(ConvNeXtAdapter_forward(adapters[1].value, encoder_tokens, input_info),
              LAMBDA r : IF ~r.ok THEN Raise(r.err)
                         ELSE decode_outputs(Tail(adapters), encoder_tokens, input_info,
                                             Append(acc, Item(adapters[1].key, r.val))))

(***************************************************************************)
(* MultiViT.forward(x, return_all_layers).  Returns [preds, tokens]: the   *)
(* dict of the predictions when the model has output adapters, else the    *)
(* encoder tokens (the last layer's, or the list of every layer's).        *)
(***************************************************************************)
decode(self, pin, encoder_tokens) ==
    IF self.output_adapters = None
    THEN Ok([is_preds |-> FALSE, preds |-> << >>, encoder_tokens |-> encoder_tokens,
             input_tokens |-> pin.input_tokens, input_info |-> pin.input_info])
    ELSE Bind(decode_outputs(self.output_adapters[1], encoder_tokens, pin.input_info, << >>),
              LAMBDA preds :
                  IF ~preds.ok THEN Raise(preds.err)
                  ELSE Ok([is_preds |-> TRUE, preds |-> preds.val, encoder_tokens |-> encoder_tokens,
                           input_tokens |-> pin.input_tokens, input_info |-> pin.input_info]))

encode(self, pin, return_all_layers) ==
    Bind(encoder_layers(self.encoder, pin.input_tokens, << >>),
         LAMBDA layers :
             IF ~layers.ok THEN Raise(layers.err)
             ELSE IF ~return_all_layers
             \* encoder_tokens = self.encoder(input_tokens)
             THEN decode(self, pin,
                         [is_list |-> FALSE,
                          tokens  |-> IF layers.val = << >> THEN pin.input_tokens
                                      ELSE layers.val[Len(layers.val)],
                          layers  |-> << >>])
             \* the list of the output of every block
             ELSE decode(self, pin, [is_list |-> TRUE, tokens |-> EmptyTokens, layers |-> layers.val]))

MultiViT_forward(self, x, return_all_layers) ==
    Bind(process_input(self, x),
         LAMBDA pin : IF ~pin.ok THEN Raise(pin.err) ELSE encode(self, pin.val, return_all_layers))

-----------------------------------------------------------------------------
(***************************************************************************)
(* The operations on one model: construction, process_input, forward.      *)
(***************************************************************************)
EmptyInfo == [tasks |-> << >>, image_size |-> <<0, 0>>, num_task_tokens |-> 0, num_global_tokens |-> 0]

EmptyEncoderTokens == [is_list |-> FALSE, tokens |-> EmptyTokens, layers |-> << >>]

Modalities == <<"rgb", "depth", "semseg">>

\* The channels of a modality's images: MULTIMAE builds rgb with 3 and depth with 1.
NumChannels(m) == IF m = "rgb" THEN 3 ELSE 1

(***************************************************************************)
(* The adapters as MULTIMAE constructs them, before the model initializes  *)
(* them: dim_tokens is left None, the positional embeddings are sin-cos.   *)
(***************************************************************************)
input_adapters_of(names, patch_size, image_size) ==
    LET present == SelectSeq(Modalities, LAMBDA m : m \in names)
    IN  [i \in DOMAIN present |->
            Item(present[i],
                 PatchedInputAdapter__init__(NumChannels(present[i]), 1, <<patch_size>>, None, TRUE,
                                             <<image_size>>).val)]

(***************************************************************************)
(* A model is built from the names of its input adapters, their patch      *)
(* size, the arguments of its "semseg" ConvNeXtAdapter (None: no output    *)
(* adapters) and the arguments of MultiViT.  A constructor that raises     *)
(* leaves no model.                                                        *)
(***************************************************************************)
NewModel(names, patch_size, image_size, out_args, num_global_tokens, dim_tokens, depth, num_heads, drop_path_rate) ==
    LET out == ConvNeXtAdapter__init__(out_args[1].num_classes, out_args[1].embed_dim,
                                       out_args[1].preds_per_patch, out_args[1].main_tasks,
                                       out_args[1].patch_size)
        r   == MultiMAE__init__(input_adapters_of(names, patch_size, image_size),
                                IF out_args = None THEN None ELSE Some(<<Item("semseg", out.val)>>),
                                num_global_tokens, dim_tokens, depth, num_heads, drop_path_rate)
    IN  /\ model = None
        /\ model' = IF (out_args # None /\ ~out.ok) \/ ~r.ok THEN None ELSE Some(r.val)
        /\ UNCHANGED <<posemb, posemb_prev, adapter, init_called, adapter_ret, call, loading>>

ProcessInput(x) ==
    /\ model # None
    /\ call = None
    /\ \E r \in {process_input(model[1], x)} :
        /\ call' = Some([op |-> "process_input", x |-> x, return_all_layers |-> FALSE,
                         ok |-> r.ok, err |-> r.err,
                         encoded        |-> IF r.ok THEN r.val.encoded ELSE << >>,
                         input_tokens   |-> IF r.ok THEN r.val.input_tokens ELSE EmptyTokens,
                         input_info     |-> IF r.ok THEN r.val.input_info ELSE EmptyInfo,
                         fused          |-> r.ok,
                         encoder_tokens |-> EmptyEncoderTokens,
                         is_preds       |-> FALSE,
                         preds          |-> << >>,
                         residuals      |-> << >>])
        /\ UNCHANGED <<posemb, posemb_prev, adapter, init_called, adapter_ret, model, loading>>

(***************************************************************************)
(* forward(x, return_all_layers).  Besides what forward returns or raises, *)
(* the record keeps what process_input returned inside a forward that      *)
(* raised later (fused tells whether it returned).                         *)
(***************************************************************************)
Forward(x, return_all_layers) ==
    /\ model # None
    /\ call = None
    /\ \E r \in {MultiViT_forward(model[1], x, return_all_layers)}, pin \in {process_input(model[1], x)} :
        /\ call' = Some([op |-> "forward", x |-> x, return_all_layers |-> return_all_layers,
                         ok |-> r.ok, err |-> r.err,
                         encoded        |-> IF pin.ok THEN pin.val.encoded ELSE << >>,
                         input_tokens   |-> IF pin.ok THEN pin.val.input_tokens ELSE EmptyTokens,
                         input_info     |-> IF pin.ok THEN pin.val.input_info ELSE EmptyInfo,
                         fused          |-> pin.ok,
                         encoder_tokens |-> IF r.ok THEN r.val.encoder_tokens ELSE EmptyEncoderTokens,
                         is_preds       |-> r.ok /\ r.val.is_preds,
                         preds          |-> IF r.ok THEN r.val.preds ELSE << >>,
                         residuals      |-> << >>])
        /\ UNCHANGED <<posemb, posemb_prev, adapter, init_called, adapter_ret, model, loading>>

(***************************************************************************)
(* model.train(mode): the training flag DropPath.forward reads.            *)
(***************************************************************************)
SetTraining(mode) ==
    /\ model # None
    /\ call = None
    /\ model[1].training # mode
    /\ model' = Some([model[1] EXCEPT !.training = mode])
    /\ UNCHANGED <<posemb, posemb_prev, adapter, init_called, adapter_ret, call, loading>>

(***************************************************************************)
(* forward(x, return_all_layers) with the draws of drop_path made visible: *)
(* rand[k] holds the two draws of block k, one per residual branch, each a *)
(* 0/1 value per sample, and the record keeps the branches every block     *)
(* added when the pass returned.                                           *)
(***************************************************************************)
ForwardDropPath(x, return_all_layers, rand) ==
    /\ model # None
    /\ call = None
    /\ \E r \in {MultiViT_forward(model[1], x, return_all_layers)}, pin \in {process_input(model[1], x)} :
        /\ call' = Some([op |-> "forward", x |-> x, return_all_layers |-> return_all_layers,
                         ok |-> r.ok, err |-> r.err,
                         encoded        |-> IF pin.ok THEN pin.val.encoded ELSE << >>,
                         input_tokens   |-> IF pin.ok THEN pin.val.input_tokens ELSE EmptyTokens,
                         input_info     |-> IF pin.ok THEN pin.val.input_info ELSE EmptyInfo,
                         fused          |-> pin.ok,
                         encoder_tokens |-> IF r.ok THEN r.val.encoder_tokens ELSE EmptyEncoderTokens,
                         is_preds       |-> r.ok /\ r.val.is_preds,
                         preds          |-> IF r.ok THEN r.val.preds ELSE << >>,
                         residuals      |-> IF ~r.ok THEN << >>
                                            ELSE [k \in DOMAIN model[1].encoder |->
                                                     Block_branches(model[1].encoder[k], model[1].training, rand[k])]])
        /\ UNCHANGED <<posemb, posemb_prev, adapter, init_called, adapter_ret, model, loading>>

(***************************************************************************)
(* The caller is done with what the pass returned: its token sequences and *)
(* input info are dropped.  The pass did not change the model.             *)
(***************************************************************************)
Return ==
    /\ call # None
    /\ call' = None
    /\ UNCHANGED <<posemb, posemb_prev, adapter, init_called, adapter_ret, model, loading>>

(***************************************************************************)
(* The model MULTIMAE builds for image_size: rgb and depth input adapters, *)
(* a "semseg" ConvNeXtAdapter on the rgb tokens, and a MultiViT with the   *)
(* default single global token.                                            *)
(***************************************************************************)
main_patch_size == 16

main_embed_dim == 6144

main_preds_per_patch == 16

main_num_classes == 1

main_dim_tokens == 768

main_depth == 12

main_num_heads == 12

default_num_global_tokens == 1

main_drop_path_rate == Rat(1, 10)

default_drop_path_rate == RatZero

BuildMain(image_size) ==
    NewModel({"rgb", "depth"}, main_patch_size, image_size,
             Some([num_classes |-> main_num_classes, embed_dim |-> main_embed_dim,
                   preds_per_patch |-> main_preds_per_patch, main_tasks |-> <<"rgb">>,
                   patch_size |-> main_patch_size]),
             default_num_global_tokens, main_dim_tokens, main_depth, main_num_heads, main_drop_path_rate)

-----------------------------------------------------------------------------
(***************************************************************************)
(* The checkpoint and the optimizer parameter groups of MULTIMAE.          *)
(*                                                                         *)
(* A parameter name or checkpoint key is the sequence of the components of *)
(* its dotted name: "input_adapters.rgb.pos_emb" is                        *)
(* <<"input_adapters", "rgb", "pos_emb">>.  A tensor is [shape, data],     *)
(* data telling where its values come from: [src, resized, padded] is the  *)
(* tensor stored under the key src of the checkpoint file (<<"init">>: the *)
(* values the constructor drew), after the interpolations to the sizes in  *)
(* resized and after `padded` paddings by one row.                         *)
(***************************************************************************)
ERR_NAME == "NameError: name 'os' is not defined"

ERR_FILE == "FileNotFoundError: No such file or directory"

ERR_SIZE_MISMATCH == "RuntimeError: Error(s) in loading state_dict: size mismatch"

InitialData == [src |-> <<"init">>, resized |-> << >>, padded |-> 0]

FileData(key) == [src |-> key, resized |-> << >>, padded |-> 0]

Param(name, shape) == [name |-> name, shape |-> shape, value |-> InitialData]

\* str(i) for the indices of the blocks.
IndexNames == <<"0", "1", "2", "3", "4", "5", "6", "7", "8", "9", "10", "11">>

\* The ConvNeXt blocks of a ConvNeXtAdapter (depth) and the hidden width of an encoder Mlp (mlp_ratio).
convnext_depth == 4

mlp_ratio == 4

\* weight and bias of nn.Linear(in_features, out_features).
LinearParams(prefix, in_features, out_features) ==
    <<Param(prefix \o <<"weight">>, <<out_features, in_features>>), Param(prefix \o <<"bias">>, <<out_features>>)>>

\* weight and bias of nn.LayerNorm(dim).
LayerNormParams(prefix, dim) ==
    <<Param(prefix \o <<"weight">>, <<dim>>), Param(prefix \o <<"bias">>, <<dim>>)>>

\* The parameters of a PatchedInputAdapter: pos_emb, then those of proj.
PatchedInputAdapter_parameters(prefix, self) ==
    <<Param(prefix \o <<"pos_emb">>, self.pos_emb[1]),
      Param(prefix \o <<"proj", "weight">>,
            <<self.proj[1].out_channels, self.proj[1].in_channels,
              self.proj[1].kernel_size[1], self.proj[1].kernel_size[2]>>),
      Param(prefix \o <<"proj", "bias">>, <<self.proj[1].out_channels>>)>>

\* The parameters of a ConvNeXtBlock(dim): dwconv, norm, pwconv1, pwconv2 (gamma is None).
ConvNeXtBlock_parameters(prefix, dim) ==
    <<Param(prefix \o <<"dwconv", "weight">>, <<dim, 1, 7, 7>>), Param(prefix \o <<"dwconv", "bias">>, <<dim>>)>>
        \o LayerNormParams(prefix \o <<"norm">>, dim)
        \o LinearParams(prefix \o <<"pwconv1">>, dim, 4 * dim)
        \o LinearParams(prefix \o <<"pwconv2">>, 4 * dim, dim)

\* The parameters of a ConvNeXtAdapter: blocks, final_layer, then proj_dec, which init added last.
ConvNeXtAdapter_parameters(prefix, self) ==
    Concat([k \in 1..convnext_depth |-> ConvNeXtBlock_parameters(prefix \o <<"blocks", IndexNames[k]>>, self.class_dim)])
        \o <<Param(prefix \o <<"final_layer", "weight">>, <<self.num_classes, self.class_dim, 1, 1>>),
             Param(prefix \o <<"final_layer", "bias">>, <<self.num_classes>>)>>
        \o LinearParams(prefix \o <<"proj_dec">>, self.proj_dec[1].in_features, self.proj_dec[1].out_features)

\* The parameters of an encoder Block: norm1, attn (qkv with bias, proj), norm2, mlp.
Block_parameters(prefix, self) ==
    LayerNormParams(prefix \o <<"norm1">>, self.dim)
        \o LinearParams(prefix \o <<"attn", "qkv">>, self.dim, 3 * self.dim)
        \o LinearParams(prefix \o <<"attn", "proj">>, self.dim, self.dim)
        \o LayerNormParams(prefix \o <<"norm2">>, self.dim)
        \o LinearParams(prefix \o <<"mlp", "fc1">>, self.dim, mlp_ratio * self.dim)
        \o LinearParams(prefix \o <<"mlp", "fc2">>, mlp_ratio * self.dim, self.dim)

(***************************************************************************)
(* model.named_parameters(): global_tokens, then the parameters of the     *)
(* input adapters, of the output adapters and of the encoder, in the order *)
(* MultiMAE.__init__ registered them.  None of the modules has a buffer,   *)
(* so these are the keys of model.state_dict() too.                        *)
(***************************************************************************)
named_parameters(self) ==
    <<Param(<<"global_tokens">>, self.global_tokens)>>
        \o Concat([i \in DOMAIN self.input_adapters |->
                      PatchedInputAdapter_parameters(<<"input_adapters", self.input_adapters[i].key>>,
                                                     self.input_adapters[i].value)])
        \o (IF self.output_adapters = None THEN << >>
            ELSE Concat([i \in DOMAIN self.output_adapters[1] |->
                            ConvNeXtAdapter_parameters(<<"output_adapters", self.output_adapters[1][i].key>>,
                                                       self.output_adapters[1][i].value)]))
        \o Concat([k \in DOMAIN self.encoder |-> Block_parameters(<<"encoder", IndexNames[k]>>, self.encoder[k])])

(***************************************************************************)
(* The class-embedding step: F.pad(t, (0, 0, 0, 1)) adds one row to the    *)
(* entry "input_adapters.semseg.class_emb.weight", when there is one.      *)
(***************************************************************************)
class_emb_key == <<"input_adapters", "semseg", "class_emb", "weight">>

pad_class_emb(checkpoint_model) ==
    [i \in DOMAIN checkpoint_model |->
        IF checkpoint_model[i].key # class_emb_key THEN checkpoint_model[i]
        ELSE Item(class_emb_key,
                  [shape |-> <<checkpoint_model[i].value.shape[1] + 1, checkpoint_model[i].value.shape[2]>>,
                   data  |-> [checkpoint_model[i].value.data EXCEPT !.padded = @ + 1]])]

(***************************************************************************)
(* "output_adapters" in k, and the removal of the keys it holds for.       *)
(***************************************************************************)
is_output_adapter_key(k) == \E j \in DOMAIN k : k[j] = "output_adapters"

remove_output_adapters(checkpoint_model) ==
    SelectSeq(checkpoint_model, LAMBDA item : ~is_output_adapter_key(item.key))

(***************************************************************************)
(* interpolate_pos_embed_multimae(model, checkpoint_model).  The keys of   *)
(* a state dict that match the pattern of the pos_emb keys are those of    *)
(* the form input_adapters.<domain>.pos_emb.  An entry whose domain the    *)
(* model has an input adapter for is replaced, when its grid differs from  *)
(* that of the model's pos_emb, by its interpolation to the model's grid.  *)
(***************************************************************************)
is_pos_emb_key(k) == Len(k) = 3 /\ k[1] = "input_adapters" /\ k[3] = "pos_emb"

needs_interpolation_always(orig_H, orig_W, new_H, new_W) == TRUE

needs_interpolation_height_only(orig_H, orig_W, new_H, new_W) == orig_H # new_H

needs_interpolation(orig_H, orig_W, new_H, new_W) == (orig_H # new_H) \/ (orig_W # new_W)

interpolate_entry(model_pos_emb, entry) ==
    LET new_H == model_pos_emb[3]
        new_W == model_pos_emb[4]
        r     == interpolate(entry.shape, <<new_H, new_W>>)
    IN  IF Len(entry.shape) # 4 THEN Raise(ERR_UNPACK)
        ELSE IF ~needs_interpolation(entry.shape[3], entry.shape[4], new_H, new_W) THEN Ok(entry)
        ELSE IF ~r.ok THEN Raise(r.err)
        ELSE Ok([shape |-> r.val,
                 data  |-> [entry.data EXCEPT !.resized = Append(@, <<new_H, new_W>>)]])

interpolate_pos_embed_multimae(self, checkpoint_model) ==
    LET touched(i) == /\ is_pos_emb_key(checkpoint_model[i].key)
                      /\ checkpoint_model[i].key[2] \in Keys(self.input_adapters)
        result(i)  == interpolate_entry(Get(self.input_adapters, checkpoint_model[i].key[2]).pos_emb[1],
                                        checkpoint_model[i].value)
    IN  IF \E i \in DOMAIN checkpoint_model : touched(i) /\ ~result(i).ok
        THEN Raise(result(CHOOSE i \in DOMAIN checkpoint_model : touched(i) /\ ~result(i).ok).err)
        ELSE Ok([i \in DOMAIN checkpoint_model |->
                    IF touched(i) THEN Item(checkpoint_model[i].key, result(i).val) ELSE checkpoint_model[i]])

(***************************************************************************)
(* model.load_state_dict(checkpoint_model, strict=False) on the parameters *)
(* of the model.  An entry under a parameter's name is copied into the     *)
(* parameter when the shapes agree; a parameter without an entry is a      *)
(* missing key, an entry without a parameter an unexpected key.  An entry  *)
(* of another shape than its parameter makes the call raise, strict or     *)
(* not, after the other entries were copied.                               *)
(***************************************************************************)
load_state_dict(params, checkpoint_model) ==
    LET names   == {params[i].name : i \in DOMAIN params}
        keys    == Keys(checkpoint_model)
        fits(i) == params[i].name \in keys /\ Get(checkpoint_model, params[i].name).shape = params[i].shape
    IN  [params          |-> [i \in DOMAIN params |->
                                 IF fits(i) THEN [params[i] EXCEPT !.value = Get(checkpoint_model, params[i].name).data]
                                 ELSE params[i]],
         missing_keys    |-> SelectSeq([i \in DOMAIN params |-> params[i].name], LAMBDA n : n \notin keys),
         unexpected_keys |-> SelectSeq(KeySeq(checkpoint_model), LAMBDA k : k \notin names),
         err             |-> IF \E i \in DOMAIN params : params[i].name \in keys /\ ~fits(i)
                             THEN ERR_SIZE_MISMATCH ELSE ""]

(***************************************************************************)
(* untrained_keys = msg.missing_keys + msg.unexpected_keys, and the        *)
(* parameter groups: one record per named parameter, with lr_scale for the *)
(* untrained ones and 1.0 for the others.                                  *)
(***************************************************************************)
untrained_keys_unexpected_only(missing_keys, unexpected_keys) == unexpected_keys

untrained_keys(missing_keys, unexpected_keys) == missing_keys \o unexpected_keys

opt_params(params, untrained, lr_scale) ==
    [i \in DOMAIN params |->
        [params   |-> params[i],
         name     |-> params[i].name,
         lr_scale |-> IF \E j \in DOMAIN untrained : untrained[j] = params[i].name THEN lr_scale ELSE 1]]

(***************************************************************************)
(* The checkpoint steps of MULTIMAE on the mapping checkpoint_model and    *)
(* the parameters of the model: class_emb padding, removal of the output   *)
(* adapters, interpolation of the positional embeddings, non-strict load.  *)
(* Returns what the steps leave: the mapping before and after the          *)
(* interpolation (the mapping is changed in place), the parameters, the    *)
(* keys load_state_dict reported, and the exception if one was raised.     *)
(***************************************************************************)
load_checkpoint(self, params, checkpoint_model) ==
    LET filtered == remove_output_adapters(pad_class_emb(checkpoint_model))
    IN  Bind(interpolate_pos_embed_multimae(self, filtered),
             LAMBDA adapted :
                 IF ~adapted.ok
                 THEN [err |-> adapted.err, interpolated |-> FALSE, before |-> filtered, checkpoint |-> filtered,
                       params |-> params, missing_keys |-> << >>, unexpected_keys |-> << >>]
                 ELSE Bind(load_state_dict(params, adapted.val),
                           LAMBDA msg :
                               [err |-> msg.err, interpolated |-> TRUE, before |-> filtered,
                                checkpoint |-> adapted.val, params |-> msg.params,
                                missing_keys |-> msg.missing_keys, unexpected_keys |-> msg.unexpected_keys]))

(***************************************************************************)
(* The model MULTIMAE(lr_scale, image_size, is_colab) constructs before it *)
(* loads the checkpoint, tabulated for the image sizes it is called with.  *)
(***************************************************************************)
ImageSizes == {224, 352}

MultiViT_of(image_size) ==
    MultiMAE__init__(input_adapters_of({"rgb", "depth"}, main_patch_size, image_size),
                     Some(<<Item("semseg",
                                 ConvNeXtAdapter__init__(main_num_classes, main_embed_dim, main_preds_per_patch,
                                                         <<"rgb">>, main_patch_size).val)>>),
                     default_num_global_tokens, main_dim_tokens, main_depth, main_num_heads, main_drop_path_rate)

built_models == [image_size \in ImageSizes |-> MultiViT_of(image_size)]

build_model(image_size) == built_models[image_size]

(***************************************************************************)
(* MULTIMAE(lr_scale, image_size, is_colab), with the checkpoint file it   *)
(* reads (None: there is no such file).  With is_colab the path of the     *)
(* file is built from os and cfg, names the module does not define.  An    *)
(* exception in any step leaves no model and no parameter groups.          *)
(***************************************************************************)
NotLoaded(err, lr_scale, image_size, file) ==
    [ok |-> FALSE, err |-> err, lr_scale |-> lr_scale, image_size |-> image_size, file |-> file,
     interpolated |-> FALSE, before |-> << >>, checkpoint |-> << >>, params |-> << >>,
     missing_keys |-> << >>, unexpected_keys |-> << >>, opt_params |-> << >>, runs |-> 0, prev |-> None]

Loaded(res, lr_scale, image_size, file, runs, prev) ==
    [ok |-> (res.err = ""), err |-> res.err, lr_scale |-> lr_scale, image_size |-> image_size, file |-> file,
     interpolated |-> res.interpolated, before |-> res.before, checkpoint |-> res.checkpoint,
     params |-> res.params, missing_keys |-> res.missing_keys, unexpected_keys |-> res.unexpected_keys,
     opt_params |-> IF res.err # "" THEN << >>
                    ELSE opt_params(res.params, untrained_keys(res.missing_keys, res.unexpected_keys), lr_scale),
     runs |-> runs, prev |-> prev]

MULTIMAE(lr_scale, image_size, is_colab, file) ==
    /\ model = None
    /\ loading = None
    /\ \E built \in {build_model(image_size)} :
          IF is_colab \/ ~built.ok \/ file = None
          THEN /\ loading' = Some(NotLoaded(IF is_colab THEN ERR_NAME ELSE IF ~built.ok THEN built.err ELSE ERR_FILE,
                                            lr_scale, image_size, file))
               /\ model' = None
          ELSE \E res \in {load_checkpoint(built.val, named_parameters(built.val), file[1])} :
                  /\ loading' = Some(Loaded(res, lr_scale, image_size, file, 1, None))
                  /\ model' = IF res.err = "" THEN Some(built.val) ELSE None
    /\ UNCHANGED <<posemb, posemb_prev, adapter, init_called, adapter_ret, call>>

(***************************************************************************)
(* The checkpoint steps of MULTIMAE once more, on the mapping and the      *)
(* model the run before left, with the parameter groups built anew.  prev  *)
(* keeps what the run before left.                                         *)
(***************************************************************************)
LoadAgain ==
    /\ model # None
    /\ loading # None
    /\ loading[1].ok
    /\ loading[1].runs < MaxRuns
    /\ \E res \in {load_checkpoint(model[1], loading[1].params, loading[1].checkpoint)} :
          loading' = Some(Loaded(res, loading[1].lr_scale, loading[1].image_size, loading[1].file,
                                 loading[1].runs + 1,
                                 Some([checkpoint      |-> loading[1].checkpoint,
                                       params          |-> loading[1].params,
                                       missing_keys    |-> loading[1].missing_keys,
                                       unexpected_keys |-> loading[1].unexpected_keys,
                                       opt_params      |-> loading[1].opt_params])))
    /\ UNCHANGED <<posemb, posemb_prev, adapter, init_called, adapter_ret, model, call>>

-----------------------------------------------------------------------------
(***************************************************************************)
(* The arguments the operations are called with.                           *)
(***************************************************************************)
MaxGlobal == 1

MaxPatch == 2

MaxDepth == 2

MaxBlocks == 3

MaxHeads == 4

\* The sequences of distinct elements of S.
Orderings(S) ==
    {s \in UNION {[1..n -> S] : n \in 0..Cardinality(S)} : \A i, j \in DOMAIN s : i # j => s[i] # s[j]}

\* The shapes of the images of modality m in a batch of B: (B, C, H, W), and (B, H, W) label maps for semseg.
ShapesOf(m, B, heights, widths) ==
    {<<B, NumChannels(m), H, W>> : H \in heights, W \in widths}
        \cup (IF m = "semseg" THEN {<<B, H, W>> : H \in heights, W \in {2}} ELSE {})

\* The inputs of a pass: a tensor, or a dict from some of `names`, in any order, to tensors.
InputsOf(names, B, heights, widths) ==
    {[is_tensor |-> TRUE, tensor |-> t, dict |-> << >>] : t \in ShapesOf("rgb", B, heights, widths)}
        \cup UNION {
               {[is_tensor |-> FALSE, tensor |-> << >>, dict |-> [i \in DOMAIN ks |-> Item(ks[i], f[i])]] :
                    f \in {g \in [DOMAIN ks -> UNION {ShapesOf(m, B, heights, widths) : m \in names}] :
                              \A i \in DOMAIN ks : g[i] \in ShapesOf(ks[i], B, heights, widths)}} :
               ks \in Orderings(names)}

NonEmptySubsets(S) == (SUBSET S) \ {{}}

DimTokensChoices == {4, 6}

PatchChoices == {1, 2}

PredsChoices == {1, 2, 3, 4, 8, 9, 12}

FusionInputs == InputsOf({"rgb", "depth", "semseg"}, 1, {2, 4}, {2, 3})

ForwardInputs == InputsOf({"rgb", "depth"}, 2, {2, 4}, {2, 3})

MainInputs == InputsOf({"rgb", "depth"}, 1, {336, 352}, {352, 360})

OutputAdapterArgs ==
    {None} \cup {Some([num_classes |-> 3, embed_dim |-> 72, preds_per_patch |-> p,
                       main_tasks |-> t, patch_size |-> q]) :
                    p \in PredsChoices, q \in PatchChoices, t \in {<<"rgb">>, <<"depth">>, <<"rgb", "depth">>}}

-----------------------------------------------------------------------------
(***************************************************************************)
(* The initial state: nothing has been called or constructed.              *)
(***************************************************************************)
Init ==
    /\ posemb = None
    /\ posemb_prev = None
    /\ adapter = None
    /\ init_called = FALSE
    /\ adapter_ret = None
    /\ model = None
    /\ call = None
    /\ loading = None

(***************************************************************************)
(* build_2d_sincos_posemb called again and again.                          *)
(***************************************************************************)
NextPosemb == \E h \in 1..MaxGrid, w \in 1..MaxGrid, embed_dim \in 1..MaxEmbed : CallPosemb(h, w, embed_dim)

SpecPosemb == Init /\ [][NextPosemb]_vars

(***************************************************************************)
(* The life of one PatchedInputAdapter.                                    *)
(***************************************************************************)
NextAdapter ==
    \/ \E stride_level \in 1..MaxStride, patch_size_full \in PatchSizeArgs,
          dim_tokens \in DimTokensArgs, sincos_pos_emb \in BOOLEAN, image_size \in ImageSizeArgs :
          NewAdapter(3, stride_level, patch_size_full, dim_tokens, sincos_pos_emb, image_size)
    \/ \E dim_tokens \in (MaxEmbed - 4)..MaxEmbed : InitAdapter(dim_tokens)
    \/ \E H \in 1..MaxImage, W \in 1..MaxImage : ForwardAdapter(<<1, 3, H, W>>)
    \/ \E H \in 1..MaxImage : ForwardAdapter(<<1, H, H>>)

SpecAdapter == Init /\ [][NextAdapter]_vars

(***************************************************************************)
(* Token fusion: process_input on models without output adapters.          *)
(***************************************************************************)
NextFusion ==
    \/ \E names \in NonEmptySubsets({"rgb", "depth", "semseg"}), patch_size \in 1..MaxPatch,
          num_global_tokens \in 0..MaxGlobal, dim_tokens \in DimTokensChoices :
          NewModel(names, patch_size, MaxImage, None, num_global_tokens, dim_tokens, 1, 2, default_drop_path_rate)
    \/ \E x \in FusionInputs : ProcessInput(x)
    \/ Return

SpecFusion == Init /\ [][NextFusion]_vars

(***************************************************************************)
(* The forward pass of models with and without a ConvNeXtAdapter.          *)
(***************************************************************************)
NextForward ==
    \/ \E names \in NonEmptySubsets({"rgb", "depth"}), patch_size \in PatchChoices,
          out_args \in OutputAdapterArgs, num_global_tokens \in 0..MaxGlobal,
          dim_tokens \in DimTokensChoices, depth \in 1..MaxDepth :
          NewModel(names, patch_size, MaxImage, out_args, num_global_tokens, dim_tokens, depth, 2, default_drop_path_rate)
    \/ \E x \in ForwardInputs, return_all_layers \in BOOLEAN : Forward(x, return_all_layers)
    \/ Return

SpecForward == Init /\ [][NextForward]_vars

(***************************************************************************)
(* The encoder: models without output adapters, of every depth, head       *)
(* count and drop-path rate, in training and in evaluation mode.           *)
(***************************************************************************)
RateChoices == {RatZero, Rat(1, 10), Rat(1, 2)}

EncoderDims == {4, 8}

\* The draws of drop_path in a pass of `depth` blocks on a batch of B samples.
Draws(depth, B) == [1..depth -> [1..2 -> [1..B -> {0, 1}]]]

EncoderInputs == InputsOf({"rgb"}, 1, {2, 4}, {2})

NextEncoder ==
    \/ \E dim_tokens \in EncoderDims, depth \in 1..MaxBlocks, num_heads \in 0..MaxHeads,
          drop_path_rate \in RateChoices :
          NewModel({"rgb"}, 2, MaxImage, None, 1, dim_tokens, depth, num_heads, drop_path_rate)
    \/ \E mode \in BOOLEAN : SetTraining(mode)
    \/ \E x \in EncoderInputs, return_all_layers \in BOOLEAN :
          /\ model # None
          /\ \E rand \in Draws(Len(model[1].encoder), 1) : ForwardDropPath(x, return_all_layers, rand)
    \/ Return

SpecEncoder == Init /\ [][NextEncoder]_vars

(***************************************************************************)
(* MULTIMAE on checkpoint files of every kind: with and without entries    *)
(* for the parameters of the model, positional embeddings of the model's   *)
(* grid and of others, entries of modalities the model lacks, output       *)
(* adapter entries, and entries whose shape does not fit.                  *)
(***************************************************************************)
Entry(key, shape) == Item(key, [shape |-> shape, data |-> FileData(key)])

OneOrNone(entries) == {<< >>, entries}

CheckpointFiles ==
    {global \o rgb \o depth \o semseg \o out \o qkv \o rest :
        global \in OneOrNone(<<Entry(<<"global_tokens">>, <<1, 1, main_dim_tokens>>)>>),
        rgb    \in {<< >>,
                    <<Entry(<<"input_adapters", "rgb", "pos_emb">>, <<1, main_dim_tokens, 14, 14>>)>>,
                    <<Entry(<<"input_adapters", "rgb", "pos_emb">>, <<1, main_dim_tokens, 22, 22>>)>>,
                    <<Entry(<<"input_adapters", "rgb", "pos_emb">>, <<1, main_dim_tokens \div 2, 14, 14>>)>>},
        depth  \in {<< >>,
                    <<Entry(<<"input_adapters", "depth", "pos_emb">>, <<1, main_dim_tokens, 14, 14>>)>>,
                    <<Entry(<<"input_adapters", "depth", "pos_emb">>, <<1, main_dim_tokens, 14, 10>>)>>},
        semseg \in {<< >>,
                    <<Entry(<<"input_adapters", "semseg", "pos_emb">>, <<1, main_dim_tokens, 14, 14>>)>>,
                    <<Entry(class_emb_key, <<133, main_dim_tokens>>),
                      Entry(<<"input_adapters", "semseg", "pos_emb">>, <<1, main_dim_tokens, 56, 56>>)>>},
        out    \in OneOrNone(<<Entry(<<"output_adapters", "semseg", "proj_dec", "weight">>, <<64, main_dim_tokens>>),
                               Entry(<<"output_adapters", "depth", "out_proj", "bias">>, <<1>>)>>),
        qkv    \in {<< >>,
                    <<Entry(<<"encoder", "0", "attn", "qkv", "weight">>, <<3 * main_dim_tokens, main_dim_tokens>>)>>,
                    <<Entry(<<"encoder", "0", "attn", "qkv", "weight">>, <<3 * main_dim_tokens, main_dim_tokens \div 2>>)>>},
        rest   \in OneOrNone(<<Entry(<<"input_adapters", "rgb", "proj", "weight">>,
                                     <<main_dim_tokens, 3, main_patch_size, main_patch_size>>),
                               Entry(<<"input_adapters", "depth", "proj", "bias">>, <<main_dim_tokens>>),
                               Entry(<<"encoder", "11", "mlp", "fc2", "bias">>, <<main_dim_tokens>>),
                               Entry(<<"decoder_encoder_norm", "weight">>, <<main_dim_tokens>>)>>)}

NextCheckpoint ==
    \/ \E lr_scale \in {1, 10}, image_size \in ImageSizes, is_colab \in BOOLEAN,
          file \in {None} \cup {Some(f) : f \in CheckpointFiles} :
          MULTIMAE(lr_scale, image_size, is_colab, file)
    \/ LoadAgain

SpecCheckpoint == Init /\ [][NextCheckpoint]_vars

(***************************************************************************)
(* The model of MULTIMAE and forward passes on it, main's among them.      *)
(***************************************************************************)
NextMain ==
    \/ \E image_size \in {224, 352} : BuildMain(image_size)
    \/ \E x \in MainInputs, return_all_layers \in BOOLEAN : Forward(x, return_all_layers)
    \/ Return

SpecMain == Init /\ [][NextMain]_vars

-----------------------------------------------------------------------------
(***************************************************************************)
(* Properties.                                                             *)
(***************************************************************************)

\* The adapter has been through an init that returned: pos_emb and proj exist.
AdapterInitialized == adapter # None /\ adapter[1].pos_emb # None /\ adapter[1].proj # None

\* The last operation on the adapter was forward on a four-dimensional input.
ForwardReturned == adapter_ret # None /\ adapter_ret[1].op = "forward" /\ Len(adapter_ret[1].arg) = 4

(***************************************************************************)
(* C3.  On an initialized PatchedInputAdapter with effective patch size    *)
(* (P_H, P_W), forward on an input of height H and width W returns exactly *)
(* (H / P_H) * (W / P_W) tokens when P_H divides H and P_W divides W (the  *)
(* patches then tile the whole image), and raises the divisibility         *)
(* assertion otherwise: no token sequence is returned for an image the     *)
(* patches do not tile.                                                    *)
(***************************************************************************)
ThmC3_EncodeTokenCount ==
    (AdapterInitialized /\ ForwardReturned) =>
        LET r   == adapter_ret[1]
            H   == r.arg[3]
            W   == r.arg[4]
            P_H == adapter[1].P_H
            P_W == adapter[1].P_W
        IN  IF H % P_H = 0 /\ W % P_W = 0
            THEN /\ r.ok
                 /\ r.tokens = (H \div P_H) * (W \div P_W)
                 /\ r.tokens * P_H * P_W = H * W
            ELSE /\ ~r.ok
                 /\ r.err = ERR_DIVISIBLE

WitC3_EncodeTokenCount ==
    /\ AdapterInitialized
    /\ ForwardReturned
    /\ adapter_ret[1].ok
    /\ adapter[1].P_H >= 2
    /\ adapter_ret[1].grid[1] # adapter_ret[1].grid[2]
    /\ adapter_ret[1].tokens >= 2

(***************************************************************************)
(* C4.  forward on an adapter on which init(dim_tokens) was never called   *)
(* (constructed with dim_tokens = None) raises for every input, with the   *)
(* "Need to call init" assertion for every four-dimensional input, also    *)
(* one the patch size divides; once init has been called, forward never    *)
(* raises that assertion again.                                            *)
(***************************************************************************)
ThmC4_EncodeBeforeInit ==
    (adapter # None /\ adapter_ret # None /\ adapter_ret[1].op = "forward") =>
        LET r == adapter_ret[1]
        IN  /\ ~init_called => (~r.ok /\ (Len(r.arg) = 4 => r.err = ERR_NEED_INIT))
            /\ init_called => r.err # ERR_NEED_INIT

WitC4_EncodeBeforeInit ==
    /\ adapter # None
    /\ ~init_called
    /\ ForwardReturned
    /\ adapter_ret[1].arg[3] % adapter[1].P_H = 0
    /\ adapter_ret[1].arg[4] % adapter[1].P_W = 0
    /\ adapter_ret[1].err = ERR_NEED_INIT

(***************************************************************************)
(* C10.  build_2d_sincos_posemb(h, w, D) with h, w >= 1: when 4 divides D  *)
(* it returns a tensor of shape (1, D, h, w), holding one value for every  *)
(* index of that shape; a call with the arguments of the call before it    *)
(* returns what that call returned; when 4 does not divide D it raises the *)
(* assertion on the embedding dimension and returns nothing.               *)
(***************************************************************************)
ThmC10_PosembShape ==
    posemb # None =>
        LET c == posemb[1]
        IN  /\ c.embed_dim % 4 = 0 =>
                /\ c.ret.ok
                /\ c.ret.val.shape = <<1, c.embed_dim, c.h, c.w>>
                /\ DOMAIN c.ret.val.at = 0..(c.embed_dim - 1)
                /\ \A d \in DOMAIN c.ret.val.at :
                      /\ DOMAIN c.ret.val.at[d] = 0..(c.h - 1)
                      /\ \A r \in DOMAIN c.ret.val.at[d] : DOMAIN c.ret.val.at[d][r] = 0..(c.w - 1)
            /\ c.embed_dim % 4 # 0 => (~c.ret.ok /\ c.ret.err = ERR_POSEMB_DIM)
            /\ (/\ posemb_prev # None
                /\ posemb_prev[1].h = c.h
                /\ posemb_prev[1].w = c.w
                /\ posemb_prev[1].embed_dim = c.embed_dim) => posemb_prev[1].ret = c.ret

WitC10_PosembShape ==
    /\ posemb # None
    /\ posemb_prev # None
    /\ posemb[1].ret.ok
    /\ posemb[1].h # posemb[1].w
    /\ posemb[1].embed_dim = 8
    /\ posemb_prev[1].h = posemb[1].h
    /\ posemb_prev[1].w = posemb[1].w
    /\ posemb_prev[1].embed_dim = posemb[1].embed_dim

\* The model, and the pass on it that just returned or raised.
TheModel == model[1]

TheCall == call[1]

ProcessInputReturned == model # None /\ call # None /\ TheCall.op = "process_input" /\ TheCall.fused

ForwardCalled == model # None /\ call # None /\ TheCall.op = "forward"

\* The number of tokens the j-th encoded modality of the pass produced, and its name.
EncodedCount(j) == Len(TheCall.encoded[j].value.toks)

EncodedName(j) == TheCall.encoded[j].key

(***************************************************************************)
(* C1.  When process_input fuses k >= 1 encoded modalities with token      *)
(* counts N_1..N_k, in that order, the input info gives modality j the     *)
(* range [start_j, end_j) with start_1 = 0, start_(j+1) = end_j and        *)
(* end_j - start_j = N_j: the ranges are contiguous and do not overlap,    *)
(* and num_task_tokens = N_1 + ... + N_k.                                  *)
(***************************************************************************)
ThmC1_InputInfoRanges ==
    (ProcessInputReturned /\ Len(TheCall.encoded) >= 1) =>
        LET k     == Len(TheCall.encoded)
            tasks == TheCall.input_info.tasks
        IN  /\ DOMAIN tasks = {EncodedName(j) : j \in 1..k}
            /\ tasks[EncodedName(1)].start_idx = 0
            /\ \A j \in 1..k :
                  /\ tasks[EncodedName(j)].end_idx - tasks[EncodedName(j)].start_idx = EncodedCount(j)
                  /\ tasks[EncodedName(j)].num_tokens = EncodedCount(j)
            /\ \A j \in 1..(k - 1) : tasks[EncodedName(j + 1)].start_idx = tasks[EncodedName(j)].end_idx
            /\ \A i, j \in 1..k :
                  i # j => \/ tasks[EncodedName(i)].end_idx <= tasks[EncodedName(j)].start_idx
                           \/ tasks[EncodedName(j)].end_idx <= tasks[EncodedName(i)].start_idx
            /\ TheCall.input_info.num_task_tokens = SumSeq([j \in 1..k |-> EncodedCount(j)])

WitC1_InputInfoRanges ==
    /\ ProcessInputReturned
    /\ Len(TheCall.encoded) = 3
    /\ EncodedCount(1) # EncodedCount(2)
    /\ EncodedCount(2) # EncodedCount(3)
    /\ EncodedCount(1) # EncodedCount(3)
    /\ TheCall.input_info.tasks[EncodedName(3)].start_idx = EncodedCount(1) + EncodedCount(2)

(***************************************************************************)
(* C2.  In what process_input returns, the tokens are concatenated in the  *)
(* order the input info records: for every modality m of the info the      *)
(* positions start_idx(m)..end_idx(m)-1 of the fused sequence hold m's     *)
(* encoded tokens, in their order, and the global tokens hold the last     *)
(* num_global_tokens positions, from num_task_tokens on, outside every     *)
(* modality's range.                                                       *)
(***************************************************************************)
ThmC2_FusionOrder ==
    ProcessInputReturned =>
        LET toks == TheCall.input_tokens.toks
            info == TheCall.input_info
        IN  /\ Len(toks) = info.num_task_tokens + info.num_global_tokens
            /\ TheCall.input_tokens.shape[2] = Len(toks)
            /\ info.num_global_tokens = TheModel.num_global_tokens
            /\ \A j \in DOMAIN TheCall.encoded :
                  /\ info.tasks[EncodedName(j)].end_idx <= info.num_task_tokens
                  /\ \A i \in 1..EncodedCount(j) :
                        toks[info.tasks[EncodedName(j)].start_idx + i] = Token(EncodedName(j), i)
            /\ \A g \in 1..info.num_global_tokens : toks[info.num_task_tokens + g] = Token(GLOBAL, g)

WitC2_FusionOrder ==
    /\ ProcessInputReturned
    /\ Len(TheCall.encoded) = 2
    /\ EncodedName(1) = "depth"
    /\ EncodedName(2) = "rgb"
    /\ EncodedCount(1) > EncodedCount(2)
    /\ TheCall.input_info.num_global_tokens >= 1
    /\ TheCall.input_tokens.toks[Len(TheCall.input_tokens.toks)].task = GLOBAL

(***************************************************************************)
(* C5.  Every prediction a forward pass returns from a ConvNeXtAdapter has *)
(* the shape (B, num_classes, H, W), with (H, W) the image size of the     *)
(* input info, whatever the size of the feature map the adapter built      *)
(* from its patch_size and preds_per_patch.                                *)
(***************************************************************************)
ThmC5_OutputSize ==
    (ForwardCalled /\ TheCall.ok /\ TheCall.is_preds) =>
        \A i \in DOMAIN TheCall.preds :
            TheCall.preds[i].value.shape =
                <<TheCall.input_tokens.shape[1],
                  Get(TheModel.output_adapters[1], TheCall.preds[i].key).num_classes,
                  TheCall.input_info.image_size[1],
                  TheCall.input_info.image_size[2]>>

WitC5_OutputSize ==
    /\ ForwardCalled
    /\ TheCall.ok
    /\ TheCall.is_preds
    /\ TheCall.input_info.image_size = <<4, 2>>
    /\ TheCall.preds[1].value.feature_map = <<2, 1>>
    /\ TheCall.preds[1].value.shape = <<2, 3, 4, 2>>

(***************************************************************************)
(* C6.  On the model MULTIMAE builds, forward of the dict                  *)
(* {rgb: (1, 3, 352, 352), depth: (1, 1, 352, 352)} returns a dict whose   *)
(* only key is "semseg", with a prediction of shape (1, 1, 352, 352); the  *)
(* fused sequence holds 484 + 484 + 1 tokens, rgb in [0, 484), and the     *)
(* adapter reads the 484 tokens of that range.                             *)
(***************************************************************************)
MainInput ==
    [is_tensor |-> FALSE, tensor |-> << >>,
     dict |-> <<Item("rgb", <<1, 3, 352, 352>>), Item("depth", <<1, 1, 352, 352>>)>>]

ThmC6_EndToEnd ==
    (ForwardCalled /\ TheCall.x = MainInput /\ ~TheCall.return_all_layers) =>
        /\ TheCall.ok
        /\ TheCall.is_preds
        /\ KeySeq(TheCall.preds) = <<"semseg">>
        /\ TheCall.preds[1].value.shape = <<1, 1, 352, 352>>
        /\ Len(TheCall.input_tokens.toks) = 484 + 484 + 1
        /\ TheCall.input_info.tasks["rgb"].start_idx = 0
        /\ TheCall.input_info.tasks["rgb"].end_idx = 484
        /\ TheCall.input_info.tasks["depth"].start_idx = 484
        /\ TheCall.input_info.tasks["depth"].end_idx = 484 + 484
        /\ Len(TheCall.preds[1].value.selected) = 484
        /\ \A i \in 1..484 :
              /\ TheCall.preds[1].value.selected[i][1].task = "rgb"
              /\ TheCall.preds[1].value.selected[i][1].idx = i

WitC6_EndToEnd ==
    /\ ForwardCalled
    /\ TheCall.x = MainInput
    /\ ~TheCall.return_all_layers
    /\ TheCall.ok
    /\ TheModel.input_adapters[1].value.pos_emb = Some(<<1, 768, 22, 22>>)
    /\ Len(TheModel.encoder) = 12
    /\ TheCall.preds[1].value.feature_map = <<88, 88>>

\* p is the square of an integer.
PerfectSquare(p) == \E r \in 0..p : r * r = p

\* The model's ConvNeXtAdapter.
TheOutputAdapter == TheModel.output_adapters[1][1].value

(***************************************************************************)
(* C7.  (Stated as claimed.)  On a model with output adapters, a forward   *)
(* pass with return_all_layers = True whose return_all_layers = False      *)
(* counterpart returns, returns too: a dict with a prediction of shape     *)
(* (B, num_classes, H, W) for every output adapter.                        *)
(***************************************************************************)
CexC7_AllLayersToAdapters ==
    (/\ ForwardCalled
     /\ TheModel.output_adapters # None
     /\ TheCall.return_all_layers
     /\ MultiViT_forward(TheModel, TheCall.x, FALSE).ok) =>
        /\ TheCall.ok
        /\ TheCall.is_preds
        /\ KeySeq(TheCall.preds) = KeySeq(TheModel.output_adapters[1])
        /\ \A i \in DOMAIN TheCall.preds :
              TheCall.preds[i].value.shape =
                  <<TheCall.input_tokens.shape[1], TheOutputAdapter.num_classes,
                    TheCall.input_info.image_size[1], TheCall.input_info.image_size[2]>>

(***************************************************************************)
(* C8.  A forward pass through a ConvNeXtAdapter whose preds_per_patch is  *)
(* not a perfect square never returns: whatever the input, it raises.      *)
(***************************************************************************)
ThmC8_NonSquarePreds ==
    (/\ ForwardCalled
     /\ TheModel.output_adapters # None
     /\ ~PerfectSquare(TheOutputAdapter.preds_per_patch)) => ~TheCall.ok

WitC8_NonSquarePreds ==
    /\ ForwardCalled
    /\ TheModel.output_adapters # None
    /\ TheOutputAdapter.preds_per_patch = 8
    /\ TheOutputAdapter.embed_dim = 8 * TheOutputAdapter.class_dim
    /\ ~TheCall.return_all_layers
    /\ TheCall.fused
    /\ \A j \in DOMAIN TheOutputAdapter.main_tasks :
          TheOutputAdapter.main_tasks[j] \in DOMAIN TheCall.input_info.tasks
    /\ TheCall.input_info.tasks[TheOutputAdapter.main_tasks[1]].num_tokens =
          (TheCall.input_info.image_size[1] \div TheOutputAdapter.patch_size)
              * (TheCall.input_info.image_size[2] \div TheOutputAdapter.patch_size)
    /\ TheCall.err = ERR_EINOPS

(***************************************************************************)
(* C9.  A forward pass through a ConvNeXtAdapter raises whenever one of    *)
(* the adapter's main_tasks is not a key of the input info's tasks; when   *)
(* it returns, the adapter has selected, for its j-th main task, exactly   *)
(* the tokens of that task's range, in order, after the last encoder       *)
(* block, and no global token.                                             *)
(***************************************************************************)
ThmC9_MainTasks ==
    (ForwardCalled /\ TheModel.output_adapters # None) =>
        LET tasks == TheOutputAdapter.main_tasks
            info  == TheCall.input_info
        IN  /\ (TheCall.fused /\ \E j \in DOMAIN tasks : tasks[j] \notin DOMAIN info.tasks) => ~TheCall.ok
            /\ TheCall.ok =>
                  LET selected == TheCall.preds[1].value.selected
                  IN  /\ \A j \in DOMAIN tasks :
                            /\ tasks[j] \in DOMAIN info.tasks
                            /\ Len(selected) = info.tasks[tasks[j]].end_idx - info.tasks[tasks[j]].start_idx
                      /\ \A i \in DOMAIN selected :
                            /\ DOMAIN selected[i] = DOMAIN tasks
                            /\ \A j \in DOMAIN tasks :
                                  /\ selected[i][j] = TheCall.encoder_tokens.tokens.toks[info.tasks[tasks[j]].start_idx + i]
                                  /\ selected[i][j].task = tasks[j]
                                  /\ selected[i][j].task # GLOBAL
                                  /\ selected[i][j].idx = i
                                  /\ selected[i][j].layer = Len(TheModel.encoder)

WitC9_MainTasks ==
    /\ ForwardCalled
    /\ TheModel.output_adapters # None
    /\ TheOutputAdapter.main_tasks = <<"rgb">>
    /\ Keys(TheModel.input_adapters) = {"rgb", "depth"}
    /\ ~TheCall.x.is_tensor
    /\ KeySeq(TheCall.x.dict) = <<"depth">>
    /\ TheCall.fused
    /\ DOMAIN TheCall.input_info.tasks = {"depth"}
    /\ ~TheCall.return_all_layers
    /\ TheCall.err = ERR_KEY

(***************************************************************************)
(* C11.  (Stated as claimed.)  In the tensor build_2d_sincos_posemb        *)
(* returns, the vector at grid location (r, c), on square and non-square   *)
(* grids alike, is made of the sine and the cosine of that location's own  *)
(* row index r and column index c at each of the D/4 frequencies: one half *)
(* of the vector is sin, cos of one of the two indices, the other half     *)
(* sin, cos of the other, and no component comes from the indices of       *)
(* another location.                                                       *)
(***************************************************************************)
CexC11_PosembOwnLocation ==
    (posemb # None /\ posemb[1].ret.ok) =>
        LET at      == posemb[1].ret.val.at
            pos_dim == posemb[1].embed_dim \div 4
        IN  \A r \in 0..(posemb[1].h - 1), c \in 0..(posemb[1].w - 1) :
                \E ab \in {<<r, c>>, <<c, r>>} :
                    \A i \in 0..(pos_dim - 1) :
                        /\ at[i][r][c] = <<"sin", ab[1], i>>
                        /\ at[pos_dim + i][r][c] = <<"cos", ab[1], i>>
                        /\ at[2 * pos_dim + i][r][c] = <<"sin", ab[2], i>>
                        /\ at[3 * pos_dim + i][r][c] = <<"cos", ab[2], i>>

\* What C11 says, on the square grids only.
PosembOwnLocationSquare == (posemb # None /\ posemb[1].h = posemb[1].w) => CexC11_PosembOwnLocation

(***************************************************************************)
(* C16.  (Stated as claimed.)  Constructing a PatchedInputAdapter with     *)
(* patch_size_full an int p or a tuple (p_h, p_w) succeeds whenever the    *)
(* positional embedding can be built, and the object has                   *)
(* P_H = max(1, p_h // stride_level), P_W = max(1, p_w // stride_level),   *)
(* p_h = p_w = p for an int, which are the kernel and the stride of its    *)
(* projection once it is initialized.                                      *)
(***************************************************************************)
CexC16_PatchSizeIntOrTuple ==
    (adapter_ret # None /\ adapter_ret[1].op = "__init__" /\ adapter_ret[1].err # ERR_POSEMB_DIM) =>
        LET p   == adapter_ret[1].arg
            p_h == p[1]
            p_w == IF Len(p) = 2 THEN p[2] ELSE p[1]
        IN  /\ adapter_ret[1].ok
            /\ adapter # None
            /\ adapter[1].P_H = Max(1, p_h \div adapter[1].stride_level)
            /\ adapter[1].P_W = Max(1, p_w \div adapter[1].stride_level)
            /\ adapter[1].proj # None =>
                  /\ adapter[1].proj[1].kernel_size = <<adapter[1].P_H, adapter[1].P_W>>
                  /\ adapter[1].proj[1].stride = <<adapter[1].P_H, adapter[1].P_W>>

\* What C16 says, for an int patch_size_full only.
PatchSizeInt == (adapter_ret # None /\ Len(adapter_ret[1].arg) = 1) => CexC16_PatchSizeIntOrTuple

(***************************************************************************)
(* C12.  (Stated as claimed.)  Constructing a model whose token dimension  *)
(* D is not a multiple of its head count H fails: no model, and so no      *)
(* Block and no Attention, with D % H # 0 ever exists.                     *)
(***************************************************************************)
CexC12_HeadsDivideDim ==
    model # None =>
        \A k \in DOMAIN TheModel.encoder :
            /\ TheModel.encoder[k].num_heads # 0
            /\ TheModel.encoder[k].dim % TheModel.encoder[k].num_heads = 0

\* What the code does instead: the model exists, and every forward pass that reaches its encoder raises.
HeadsCheckedInForward ==
    (/\ ForwardCalled
     /\ TheCall.fused
     /\ TheModel.encoder # << >>
     /\ TheModel.encoder[1].dim % TheModel.encoder[1].num_heads # 0) =>
        (~TheCall.ok /\ TheCall.err = ERR_RESHAPE)

\* The drop probability of an encoder block: that of its DropPath, 0 for nn.Identity.
BlockProb(block) == IF block.drop_path = None THEN RatZero ELSE block.drop_path[1]

\* Between neighbouring blocks the probability grows by the same step, drop_path_rate / (n - 1).
LinearInDepth ==
    \A k \in 1..(Len(TheModel.encoder) - 1) :
        LET step == RatSub(BlockProb(TheModel.encoder[k + 1]), BlockProb(TheModel.encoder[k]))
        IN  RatEq(Rat(step[1] * (Len(TheModel.encoder) - 1), step[2]), TheModel.drop_path_rate)

\* In a pass that returned, drop_path was the identity in every block that is not to drop anything.
IdentityWhenNotDropping ==
    (call # None /\ TheCall.ok) =>
        /\ DOMAIN TheCall.residuals = DOMAIN TheModel.encoder
        /\ \A k \in DOMAIN TheModel.encoder :
              (~TheModel.training \/ RatEq(BlockProb(TheModel.encoder[k]), RatZero)) =>
                  TheCall.residuals[k] = <<Branch("attn"), Branch("mlp")>>

(***************************************************************************)
(* C17.  (Stated as claimed.)  In an encoder of n >= 1 blocks built with   *)
(* drop_path_rate r, the drop probability grows linearly with the block:   *)
(* 0 at the first block and exactly r at the last; and in a model that is  *)
(* not in training mode, or in a block of probability 0, drop_path returns *)
(* its input, so that the block adds both residual branches undropped.     *)
(***************************************************************************)
CexC17_StochasticDepth ==
    (model # None /\ Len(TheModel.encoder) >= 1) =>
        /\ RatEq(BlockProb(TheModel.encoder[1]), RatZero)
        /\ RatEq(BlockProb(TheModel.encoder[Len(TheModel.encoder)]), TheModel.drop_path_rate)
        /\ LinearInDepth
        /\ IdentityWhenNotDropping

(***************************************************************************)
(* C17, amended.  The same for n >= 2 blocks; the single block of an       *)
(* encoder of depth 1 has drop probability 0 whatever r is, so that r is   *)
(* reached at the last block only when n >= 2 or r = 0.                    *)
(***************************************************************************)
ThmC17_StochasticDepth ==
    (model # None /\ Len(TheModel.encoder) >= 1) =>
        /\ RatEq(BlockProb(TheModel.encoder[1]), RatZero)
        /\ Len(TheModel.encoder) >= 2 =>
              RatEq(BlockProb(TheModel.encoder[Len(TheModel.encoder)]), TheModel.drop_path_rate)
        /\ Len(TheModel.encoder) >= 2 => LinearInDepth
        /\ IdentityWhenNotDropping

WitC17_StochasticDepth ==
    /\ ForwardCalled
    /\ TheCall.ok
    /\ ~TheModel.training
    /\ Len(TheModel.encoder) = 3
    /\ TheModel.drop_path_rate = Rat(1, 2)
    /\ RatEq(BlockProb(TheModel.encoder[2]), Rat(1, 4))
    /\ RatEq(BlockProb(TheModel.encoder[3]), Rat(1, 2))
    /\ TheCall.residuals[3] = <<Branch("attn"), Branch("mlp")>>

\* The tokens of the pass after k encoder blocks: those of the fused input, in their order.
TokensAfter(k) ==
    [shape |-> TheCall.input_tokens.shape,
     toks  |-> [i \in DOMAIN TheCall.input_tokens.toks |-> [TheCall.input_tokens.toks[i] EXCEPT !.layer = k]]]

(***************************************************************************)
(* C18.  A forward pass on a model without output adapters returns the     *)
(* encoder tokens: without return_all_layers the output of the last block  *)
(* only; with it the list of the outputs of the blocks, one per block in   *)
(* order, the k-th being block k applied to the (k-1)-th (to the fused     *)
(* input for k = 1) and the last being what the pass without               *)
(* return_all_layers returns.  Every sequence returned holds               *)
(* num_task_tokens + num_global_tokens tokens, in the order of the input.  *)
(***************************************************************************)
ThmC18_EncoderTokens ==
    (ForwardCalled /\ TheModel.output_adapters = None /\ TheCall.ok) =>
        LET depth == Len(TheModel.encoder)
            et    == TheCall.encoder_tokens
            len   == TheCall.input_info.num_task_tokens + TheCall.input_info.num_global_tokens
        IN  /\ ~TheCall.is_preds
            /\ Len(TheCall.input_tokens.toks) = len
            /\ ~TheCall.return_all_layers =>
                  /\ ~et.is_list
                  /\ et.tokens = TokensAfter(depth)
                  /\ Len(et.tokens.toks) = len
            /\ TheCall.return_all_layers =>
                  /\ et.is_list
                  /\ Len(et.layers) = depth
                  /\ \A k \in 1..depth :
                        /\ et.layers[k] = TokensAfter(k)
                        /\ Len(et.layers[k].toks) = len
                        /\ et.layers[k] = Block_forward(TheModel.encoder[k],
                                                        IF k = 1 THEN TheCall.input_tokens
                                                        ELSE et.layers[k - 1]).val
                  /\ et.layers[depth] = MultiViT_forward(TheModel, TheCall.x, FALSE).val.encoder_tokens.tokens

WitC18_EncoderTokens ==
    /\ ForwardCalled
    /\ TheModel.output_adapters = None
    /\ TheCall.ok
    /\ TheCall.return_all_layers
    /\ Len(TheCall.encoder_tokens.layers) = 2
    /\ Len(TheCall.encoded) = 2
    /\ TheCall.input_info.num_global_tokens = 1
    /\ TheCall.encoder_tokens.layers[1] # TheCall.encoder_tokens.layers[2]


(***************************************************************************)
(* The run of MULTIMAE that returned, or of its checkpoint steps again.    *)
(***************************************************************************)
CheckpointLoaded == model # None /\ loading # None /\ loading[1].ok

\* The keys of the checkpoint file that do not contain "output_adapters".
KeptKeys(file) == {file[i].key : i \in {j \in DOMAIN file : \A c \in DOMAIN file[j].key : file[j].key[c] # "output_adapters"}}

(***************************************************************************)
(* C13: the parameter groups MULTIMAE returns hold one record {params,     *)
(* name, lr_scale} per named parameter of the model, in the order of       *)
(* named_parameters.  The lr_scale of a record is the configured lr_scale  *)
(* if the name is not a key of the checkpoint without its output_adapters  *)
(* keys, and 1 otherwise; so every output-adapter parameter has the        *)
(* configured scale and every parameter restored from the checkpoint has   *)
(* 1.  A checkpoint key the model does not have has no record.             *)
(***************************************************************************)
ThmC13_ParameterGroups ==
    CheckpointLoaded =>
        \A named \in {named_parameters(model[1])} :
        \A kept \in {KeptKeys(loading[1].file[1])} :
        \A groups \in {loading[1].opt_params} :
            /\ Len(groups) = Len(named)
            /\ \A i \in DOMAIN groups :
                  /\ DOMAIN groups[i] = {"params", "name", "lr_scale"}
                  /\ groups[i].name = named[i].name
                  /\ groups[i].params = loading[1].params[i]
                  /\ groups[i].params.name = named[i].name
                  /\ groups[i].params.shape = named[i].shape
                  /\ groups[i].lr_scale = (IF groups[i].name \notin kept THEN loading[1].lr_scale ELSE 1)
                  /\ groups[i].name[1] = "output_adapters" => groups[i].lr_scale = loading[1].lr_scale
                  /\ groups[i].params.value.src = groups[i].name => groups[i].lr_scale = 1
                  /\ groups[i].name \in kept <=> groups[i].params.value.src = groups[i].name
            /\ \A j \in DOMAIN loading[1].file[1] :
                  (\A i \in DOMAIN named : named[i].name # loading[1].file[1][j].key)
                      => \A i \in DOMAIN groups : groups[i].name # loading[1].file[1][j].key

WitC13_ParameterGroups ==
    /\ CheckpointLoaded
    /\ loading[1].runs = 1
    /\ loading[1].lr_scale = 10
    /\ \E i \in DOMAIN loading[1].opt_params :
          /\ loading[1].opt_params[i].lr_scale = 1
          /\ loading[1].opt_params[i].params.value.src = loading[1].opt_params[i].name
    /\ \E i \in DOMAIN loading[1].opt_params :
          /\ loading[1].opt_params[i].lr_scale = 10
          /\ loading[1].opt_params[i].name[1] = "encoder"
    /\ \E i \in DOMAIN loading[1].opt_params :
          /\ loading[1].opt_params[i].lr_scale = 10
          /\ loading[1].opt_params[i].name = <<"output_adapters", "semseg", "proj_dec", "weight">>
    /\ \E j \in DOMAIN loading[1].file[1] : loading[1].file[1][j].key = <<"output_adapters", "semseg", "proj_dec", "weight">>
    /\ \E j \in DOMAIN loading[1].file[1] : loading[1].file[1][j].key = <<"decoder_encoder_norm", "weight">>
    /\ \E j \in DOMAIN loading[1].unexpected_keys : loading[1].unexpected_keys[j] = <<"decoder_encoder_norm", "weight">>


(***************************************************************************)
(* C14: after interpolate_pos_embed_multimae(model, checkpoint_model) the  *)
(* mapping has the keys it had.  An entry input_adapters.<m>.pos_emb of a  *)
(* modality m the model has an input adapter for has the grid (H, W) of    *)
(* the model's pos_emb for m and the batch and channel dimensions it had:  *)
(* it is the entry it was when the grid matched already, and its           *)
(* interpolation to the model's grid when not.  Every other entry, the     *)
(* pos_emb of a modality the model lacks included, is the entry it was.    *)
(***************************************************************************)
ThmC14_InterpolationFrame ==
    (loading # None /\ loading[1].interpolated) =>
        \A before \in {loading[1].before} :
        \A after \in {loading[1].checkpoint} :
        \A adapters \in {build_model(loading[1].image_size).val.input_adapters} :
            /\ KeySeq(after) = KeySeq(before)
            /\ \A i \in DOMAIN before :
                  IF /\ Len(before[i].key) = 3
                     /\ before[i].key[1] = "input_adapters"
                     /\ before[i].key[3] = "pos_emb"
                     /\ before[i].key[2] \in Keys(adapters)
                  THEN \A grid \in {Get(adapters, before[i].key[2]).pos_emb[1]} :
                          /\ after[i].value.shape[3] = grid[3]
                          /\ after[i].value.shape[4] = grid[4]
                          /\ after[i].value.shape[1] = before[i].value.shape[1]
                          /\ after[i].value.shape[2] = before[i].value.shape[2]
                          /\ after[i].value.data.src = before[i].value.data.src
                          /\ after[i].value.data.padded = before[i].value.data.padded
                          /\ IF before[i].value.shape[3] = grid[3] /\ before[i].value.shape[4] = grid[4]
                             THEN after[i].value = before[i].value
                             ELSE after[i].value.data.resized =
                                      Append(before[i].value.data.resized, <<grid[3], grid[4]>>)
                  ELSE after[i].value = before[i].value

WitC14_InterpolationFrame ==
    /\ loading # None
    /\ loading[1].interpolated
    /\ loading[1].runs = 1
    /\ \E i \in DOMAIN loading[1].before :
          /\ loading[1].before[i].key = <<"input_adapters", "rgb", "pos_emb">>
          /\ loading[1].before[i].value.shape = <<1, main_dim_tokens, 22, 22>>
          /\ loading[1].checkpoint[i].value.shape = <<1, main_dim_tokens, 14, 14>>
          /\ loading[1].checkpoint[i].value.data.resized = <<<<14, 14>>>>
    /\ \E i \in DOMAIN loading[1].before :
          /\ loading[1].before[i].key = <<"input_adapters", "depth", "pos_emb">>
          /\ loading[1].before[i].value.shape = <<1, main_dim_tokens, 14, 14>>
          /\ loading[1].checkpoint[i] = loading[1].before[i]
    /\ \E i \in DOMAIN loading[1].before :
          /\ loading[1].before[i].key = <<"input_adapters", "semseg", "pos_emb">>
          /\ loading[1].before[i].value.shape = <<1, main_dim_tokens, 56, 56>>
          /\ loading[1].checkpoint[i] = loading[1].before[i]
    /\ \E i \in DOMAIN loading[1].before :
          /\ loading[1].before[i].key = <<"encoder", "11", "mlp", "fc2", "bias">>
          /\ loading[1].checkpoint[i] = loading[1].before[i]


(***************************************************************************)
(* What a run of the checkpoint steps leaves beside the mapping: the sets  *)
(* of missing and unexpected keys and the tag (name, lr_scale) of every    *)
(* parameter.                                                              *)
(***************************************************************************)
KeySet(keys) == {keys[i] : i \in DOMAIN keys}

Tags(groups) == [i \in DOMAIN groups |-> <<groups[i].name, groups[i].lr_scale>>]

SecondRun == model # None /\ loading # None /\ loading[1].runs >= 2

(***************************************************************************)
(* C15 as stated: the checkpoint steps of MULTIMAE run a second time on    *)
(* the same mapping leave the same sets of missing and unexpected keys,    *)
(* the same parameter tags, the same checkpoint entries and the same       *)
(* parameter values as the first run.                                      *)
(***************************************************************************)
CexC15_LoadingIdempotent ==
    SecondRun =>
        /\ loading[1].ok
        /\ KeySet(loading[1].missing_keys) = KeySet(loading[1].prev[1].missing_keys)
        /\ KeySet(loading[1].unexpected_keys) = KeySet(loading[1].prev[1].unexpected_keys)
        /\ Tags(loading[1].opt_params) = Tags(loading[1].prev[1].opt_params)
        /\ loading[1].checkpoint = loading[1].prev[1].checkpoint
        /\ loading[1].params = loading[1].prev[1].params

(***************************************************************************)
(* C15, amended: a second run of the checkpoint steps on the same mapping  *)
(* leaves the same sets of missing and unexpected keys, the same parameter *)
(* tags and the same parameter values as the first, and the same           *)
(* checkpoint entries except "input_adapters.semseg.class_emb.weight",     *)
(* which every run pads by one more row.                                   *)
(***************************************************************************)
ThmC15_LoadingIdempotent ==
    SecondRun =>
        \A now \in {loading[1].checkpoint} :
        \A was \in {loading[1].prev[1].checkpoint} :
            /\ loading[1].ok
            /\ KeySet(loading[1].missing_keys) = KeySet(loading[1].prev[1].missing_keys)
            /\ KeySet(loading[1].unexpected_keys) = KeySet(loading[1].prev[1].unexpected_keys)
            /\ Tags(loading[1].opt_params) = Tags(loading[1].prev[1].opt_params)
            /\ loading[1].params = loading[1].prev[1].params
            /\ KeySeq(now) = KeySeq(was)
            /\ \A i \in DOMAIN now :
                  IF now[i].key # <<"input_adapters", "semseg", "class_emb", "weight">>
                  THEN now[i].value = was[i].value
                  ELSE /\ now[i].value.shape = <<was[i].value.shape[1] + 1, was[i].value.shape[2]>>
                       /\ now[i].value.data.src = was[i].value.data.src
                       /\ now[i].value.data.resized = was[i].value.data.resized
                       /\ now[i].value.data.padded = was[i].value.data.padded + 1

WitC15_LoadingIdempotent ==
    /\ SecondRun
    /\ loading[1].ok
    /\ loading[1].lr_scale = 10
    /\ loading[1].missing_keys # << >>
    /\ loading[1].unexpected_keys # << >>
    /\ \E i \in DOMAIN loading[1].checkpoint :
          /\ loading[1].checkpoint[i].key = <<"input_adapters", "semseg", "class_emb", "weight">>
          /\ loading[1].checkpoint[i].value.shape[1] = 133 + loading[1].runs
    /\ \E i \in DOMAIN loading[1].checkpoint :
          /\ loading[1].checkpoint[i].key = <<"input_adapters", "rgb", "pos_emb">>
          /\ loading[1].checkpoint[i].value.data.resized = <<<<14, 14>>>>
    /\ \E i \in DOMAIN loading[1].params :
          /\ loading[1].params[i].name = <<"input_adapters", "rgb", "pos_emb">>
          /\ loading[1].params[i].value.src = <<"input_adapters", "rgb", "pos_emb">>
          /\ loading[1].params[i].value.resized = <<<<14, 14>>>>

=============================================================================
